---- MODULE Spec2Model ----
(***************************************************************************)
(* A model of webmunk-lists (src/src/list-utilities.mts): the IndexedDB    *)
(* object store "list_entries" with its indexes, the CRUD and bulk         *)
(* operations on it, the pattern validator and the backend merge.          *)
(*                                                                         *)
(* Strings are TLA+ strings, taken apart with Len, SubSeq and \o as the     *)
(* code takes them apart with slice, indexOf and replace.  A JavaScript    *)
(* object is a function from its own keys; a property that is missing or   *)
(* undefined is the value Undefined.                                       *)
(***************************************************************************)
EXTENDS Integers, Sequences, FiniteSets, TLC

\* ------------------------------------------------------------------------
\* Bounds of the model
\* ------------------------------------------------------------------------

\* ids the key generator may hand out (creates are disabled beyond it)
MaxId == 3

\* longest array passed to bulkCreateListEntries and importList, and longest
\* array of a list in a configuration with several lists
MaxBatch == 2

\* longest array of candidates passed to mergeBackendList
MaxMergeBatch == 3

\* latest value of Date.now() (the clock stops there)
MaxClock == 3

\* ------------------------------------------------------------------------
\* JavaScript values
\* ------------------------------------------------------------------------

Undefined == "<undefined>"

Null == "<null>"

EmptyObject == [k \in {} |-> Undefined]

\* { ...a, ...b }: the keys of both, b's value where both have the key
Spread(a, b) == [k \in (DOMAIN a) \cup (DOMAIN b) |-> IF k \in DOMAIN b THEN b[k] ELSE a[k]]

\* o?.k : the property, or undefined when the object has no such key
Get(o, k) == IF k \in DOMAIN o THEN o[k] ELSE Undefined

\* the object has the property (with a value that is not undefined)
Has(o, k) == k \in DOMAIN o

\* ------------------------------------------------------------------------
\* String helpers (String.prototype.*)
\* ------------------------------------------------------------------------

CharAt(s, i) == SubSeq(s, i, i)

LowerChar(c) ==
  CASE c = "A" -> "a" [] c = "B" -> "b" [] c = "C" -> "c" [] c = "D" -> "d"
    [] c = "E" -> "e" [] c = "F" -> "f" [] c = "G" -> "g" [] c = "H" -> "h"
    [] c = "I" -> "i" [] c = "J" -> "j" [] c = "K" -> "k" [] c = "L" -> "l"
    [] c = "M" -> "m" [] c = "N" -> "n" [] c = "O" -> "o" [] c = "P" -> "p"
    [] c = "Q" -> "q" [] c = "R" -> "r" [] c = "S" -> "s" [] c = "T" -> "t"
    [] c = "U" -> "u" [] c = "V" -> "v" [] c = "W" -> "w" [] c = "X" -> "x"
    [] c = "Y" -> "y" [] c = "Z" -> "z" [] OTHER -> c

RECURSIVE ToLowerCase(_)
ToLowerCase(s) ==
  IF s = "" THEN "" ELSE LowerChar(CharAt(s, 1)) \o ToLowerCase(SubSeq(s, 2, Len(s)))

WhiteSpace == {" ", "\t", "\n", "\r"}

RECURSIVE TrimStart(_)
TrimStart(s) ==
  IF s # "" /\ CharAt(s, 1) \in WhiteSpace THEN TrimStart(SubSeq(s, 2, Len(s))) ELSE s

RECURSIVE TrimEnd(_)
TrimEnd(s) ==
  IF s # "" /\ CharAt(s, Len(s)) \in WhiteSpace THEN TrimEnd(SubSeq(s, 1, Len(s) - 1)) ELSE s

Trim(s) == TrimEnd(TrimStart(s))

StartsWith(s, p) == Len(s) >= Len(p) /\ SubSeq(s, 1, Len(p)) = p

EndsWith(s, p) == Len(s) >= Len(p) /\ SubSeq(s, Len(s) - Len(p) + 1, Len(s)) = p

\* s.indexOf(sub), 1-based; 0 when sub does not occur (JavaScript's -1)
IndexOf(s, sub) ==
  LET hits == {i \in 1..(Len(s) - Len(sub) + 1) : SubSeq(s, i, i + Len(sub) - 1) = sub}
  IN IF hits = {} THEN 0 ELSE CHOOSE i \in hits : \A j \in hits : i <= j

Includes(s, sub) == IndexOf(s, sub) # 0

\* s.split(sep) for a one-character separator
RECURSIVE Split(_, _)
Split(s, sep) ==
  LET i == IndexOf(s, sep)
  IN IF i = 0 THEN <<s>>
     ELSE <<SubSeq(s, 1, i - 1)>> \o Split(SubSeq(s, i + 1, Len(s)), sep)

\* parts.join(sep)
RECURSIVE Join(_, _)
Join(parts, sep) ==
  IF Len(parts) = 0 THEN ""
  ELSE IF Len(parts) = 1 THEN parts[1]
  ELSE parts[1] \o sep \o Join(Tail(parts), sep)

\* the characters of list names in the order of their UTF-16 code units
CodeUnitOrder == "-0123456789ABCDEFGHIJKLMNOPQRSTUVWXYZ_abcdefghijklmnopqrstuvwxyz"

CodeUnit(c) == IndexOf(CodeUnitOrder, c)

\* a < b as Array.prototype.sort() compares strings without a comparator: by
\* code units, a proper prefix first
RECURSIVE StringLess(_, _)
StringLess(a, b) ==
  IF a = "" THEN b # ""
  ELSE IF b = "" THEN FALSE
  ELSE IF CharAt(a, 1) = CharAt(b, 1)
       THEN StringLess(SubSeq(a, 2, Len(a)), SubSeq(b, 2, Len(b)))
       ELSE CodeUnit(CharAt(a, 1)) < CodeUnit(CharAt(b, 1))

\* the strings of a set in the opposite order
RECURSIVE SortDescending(_)
SortDescending(S) ==
  IF S = {} THEN <<>>
  ELSE LET m == CHOOSE x \in S : \A y \in S : x = y \/ StringLess(y, x)
       IN <<m>> \o SortDescending(S \ {m})

\* Array.from(set).sort()
RECURSIVE Sort(_)
Sort(S) ==
  IF S = {} THEN <<>>
  ELSE LET m == CHOOSE x \in S : \A y \in S : x = y \/ StringLess(x, y)
       IN <<m>> \o Sort(S \ {m})

\* ------------------------------------------------------------------------
\* psl.parse: the registrable-domain resolver the code imports
\* ------------------------------------------------------------------------

\* the rules of the public suffix list that the model's hostnames meet
PublicSuffixes == {"com", "uk", "co.uk"}

LabelChars == {"a","b","c","d","e","f","g","h","i","j","k","l","m","n","o","p","q",
               "r","s","t","u","v","w","x","y","z","0","1","2","3","4","5","6","7",
               "8","9","-"}

\* psl's validation of one label: non-empty, no leading or trailing dash,
\* letters, digits and dashes only
PslLabelOk(l) ==
  /\ l # ""
  /\ CharAt(l, 1) # "-"
  /\ CharAt(l, Len(l)) # "-"
  /\ \A i \in 1..Len(l) : CharAt(l, i) \in LabelChars

\* the longest rule of the list that is a suffix of the labels; 0 when none
PslRuleLen(labels) ==
  LET n == Len(labels)
      fits == {k \in 1..n : Join(SubSeq(labels, n - k + 1, n), ".") \in PublicSuffixes}
  IN IF fits = {} THEN 0 ELSE CHOOSE k \in fits : \A j \in fits : j <= k

\* the registrable domain of valid labels that the rule of length k covers:
\* the rule's labels and one more; an unlisted suffix counts as a rule of one
\* label
PslRegistrable(labels, n, k) ==
  IF k = 0
  THEN IF n < 2 THEN [error |-> FALSE, domain |-> Null]
       ELSE [error |-> FALSE, domain |-> Join(SubSeq(labels, n - 1, n), ".")]
  ELSE IF n = k THEN [error |-> FALSE, domain |-> Null]
       ELSE [error |-> FALSE, domain |-> Join(SubSeq(labels, n - k, n), ".")]

\* psl.parse of a lower-cased hostname without trailing dot, and its labels
PslParseLabels(domain, labels) ==
  IF domain = "" \/ \E i \in 1..Len(labels) : ~PslLabelOk(labels[i])
  THEN [error |-> TRUE, domain |-> Null]
  ELSE PslRegistrable(labels, Len(labels), PslRuleLen(labels))

PslParseHost(domain) == PslParseLabels(domain, Split(domain, "."))

\* a trailing dot (a fully qualified name) is dropped
PslDropDot(lower) ==
  IF lower # "" /\ EndsWith(lower, ".") THEN SubSeq(lower, 1, Len(lower) - 1) ELSE lower

\* psl.parse(input): [error, domain], domain Null when the input has no
\* registrable domain
PslParse(input) == PslParseHost(PslDropDot(ToLowerCase(input)))

\* ------------------------------------------------------------------------
\* Pattern validation helpers
\* ------------------------------------------------------------------------

\* replace(/^www\./, '')
StripLeadingWww(lower) ==
  IF StartsWith(lower, "www.") THEN SubSeq(lower, 5, Len(lower)) ELSE lower

normalizeLeadingWww(host) == StripLeadingWww(ToLowerCase(host))

\* a validator that is not strict: any pattern with a registrable domain passes
AnyRegisteredDomain(pattern) ==
  LET parsed == PslParse(normalizeLeadingWww(Trim(pattern)))
  IN ~parsed.error /\ parsed.domain # Null

\* isStrictRegisteredDomain from the parse on: the tests of parsed and the
\* final comparison
StrictOfParsed(candidate, parsed) ==
  IF parsed.error THEN FALSE
  ELSE IF parsed.domain = Null \/ parsed.domain = "" THEN FALSE
  ELSE candidate = parsed.domain

\* isStrictRegisteredDomain from the normalised candidate on
StrictOfCandidate(candidate) ==
  IF Includes(candidate, "://") \/ Includes(candidate, "/") THEN FALSE
  ELSE StrictOfParsed(candidate, PslParse(candidate))

isStrictRegisteredDomain(pattern) == StrictOfCandidate(normalizeLeadingWww(Trim(pattern)))

\* the pattern strings of the model's inputs
KnownPatterns == {"", "a.com", "m.a.com", "www.a.com"}

\* isStrictRegisteredDomain of each of them, computed once
StrictOfKnown == [p \in KnownPatterns |-> isStrictRegisteredDomain(p)]

\* a call of isStrictRegisteredDomain: the result, looked up when tabulated
IsStrict(pattern) ==
  IF pattern \in KnownPatterns THEN StrictOfKnown[pattern] ELSE isStrictRegisteredDomain(pattern)

\* ------------------------------------------------------------------------
\* new URL(url) and new RegExp(pattern)
\* ------------------------------------------------------------------------

\* The URL parser for strings of the shape
\*   scheme://[userinfo@]host[:port][/path][?query][#fragment]
\* with a path that needs no normalisation; a string without "://" has no
\* scheme that the parser accepts without a base (true of the model's inputs,
\* none of which has a ":" elsewhere).

\* new URL(...) throws
UrlFailure == [ok |-> FALSE, hostname |-> "", pathname |-> ""]

\* code points that end the parse of a host
ForbiddenHostChars ==
  {" ", "\"", "#", "/", ":", "<", ">", "?", "@", "[", "\\", "]", "^", "|", "%"}

Digits == {"0", "1", "2", "3", "4", "5", "6", "7", "8", "9"}

\* the index of the first character of s that is in chars; Len(s) + 1 when none
FirstOf(s, chars) ==
  LET hits == {i \in 1..Len(s) : CharAt(s, i) \in chars}
  IN IF hits = {} THEN Len(s) + 1 ELSE CHOOSE i \in hits : \A j \in hits : i <= j

\* a scheme: a letter, then letters, digits, "+", "-" and "."
SchemeOk(scheme) ==
  /\ scheme # ""
  /\ CharAt(scheme, 1) \in (LabelChars \ (Digits \cup {"-"}))
  /\ \A i \in 1..Len(scheme) : CharAt(scheme, i) \in (LabelChars \cup {"+", "."})

\* the authority without its userinfo
AfterUserinfo(authority) ==
  SubSeq(authority, IndexOf(authority, "@") + 1, Len(authority))

\* host[:port] without the port
BeforePort(hostport) == SubSeq(hostport, 1, FirstOf(hostport, {":"}) - 1)

\* the port is empty or digits
PortOk(hostport) ==
  \A i \in (FirstOf(hostport, {":"}) + 1)..Len(hostport) : CharAt(hostport, i) \in Digits

\* the URL of a host and a path: an empty host or a forbidden code point in it
\* is a failure; the host is lower-cased and an empty path is "/"
UrlOfHostAndPath(host, path) ==
  IF host = "" \/ \E i \in 1..Len(host) : CharAt(host, i) \in ForbiddenHostChars
  THEN UrlFailure
  ELSE [ok |-> TRUE, hostname |-> ToLowerCase(host),
        pathname |-> IF path = "" THEN "/" ELSE path]

\* the URL of the authority and of what follows it
UrlOfAuthority(hostport, tail) ==
  IF ~PortOk(hostport) THEN UrlFailure
  ELSE UrlOfHostAndPath(BeforePort(hostport), SubSeq(tail, 1, FirstOf(tail, {"?", "#"}) - 1))

\* the URL of what follows "scheme://"
UrlAfterScheme(rest, a) ==
  UrlOfAuthority(AfterUserinfo(SubSeq(rest, 1, a - 1)), SubSeq(rest, a, Len(rest)))

\* the URL of a trimmed string whose "://" is at index i (0 when it has none)
UrlOfTrimmed(s, i) ==
  IF i = 0 \/ ~SchemeOk(ToLowerCase(SubSeq(s, 1, i - 1))) THEN UrlFailure
  ELSE UrlAfterScheme(SubSeq(s, i + 3, Len(s)),
                      FirstOf(SubSeq(s, i + 3, Len(s)), {"/", "?", "#"}))

\* leading and trailing spaces and control characters are dropped
UrlOfInput(s) == UrlOfTrimmed(s, IndexOf(s, "://"))

\* new URL(input): [ok, hostname, pathname]
ParseURL(input) == UrlOfInput(Trim(input))

\* Regular expressions made of literal characters, ".", escaped characters,
\* a leading "^" and a trailing "$"; "(", ")" and "[" are the other
\* metacharacters of the model's patterns.

Count(s, c) == Cardinality({i \in 1..Len(s) : CharAt(s, i) = c})

\* new RegExp(pattern) throws: an unbalanced group or an unterminated class
RegExpFails(pattern) ==
  \/ Count(pattern, "(") # Count(pattern, ")")
  \/ (Includes(pattern, "[") /\ ~Includes(pattern, "]"))

\* the atoms of the source: [any, ch], any for "."
RECURSIVE RegExpAtoms(_)
RegExpAtoms(s) ==
  IF s = "" THEN <<>>
  ELSE IF CharAt(s, 1) = "\\" /\ Len(s) >= 2
  THEN <<[any |-> FALSE, ch |-> CharAt(s, 2)]>> \o RegExpAtoms(SubSeq(s, 3, Len(s)))
  ELSE <<[any |-> CharAt(s, 1) = ".", ch |-> CharAt(s, 1)]>>
         \o RegExpAtoms(SubSeq(s, 2, Len(s)))

\* the atoms match the text from index pos on
RegExpMatchesAt(atoms, text, pos) ==
  /\ pos + Len(atoms) - 1 <= Len(text)
  /\ \A k \in 1..Len(atoms) : atoms[k].any \/ atoms[k].ch = CharAt(text, pos + k - 1)

\* the test of atoms that are anchored at the start, at the end, or not
RegExpTestAtoms(atoms, atStart, atEnd, text) ==
  \E pos \in (IF atStart THEN {1} ELSE 1..(Len(text) + 1)) :
    /\ RegExpMatchesAt(atoms, text, pos)
    /\ atEnd => pos + Len(atoms) - 1 = Len(text)

\* the source without its anchors
RegExpBody(pattern, atStart, atEnd) ==
  SubSeq(pattern, IF atStart THEN 2 ELSE 1, IF atEnd THEN Len(pattern) - 1 ELSE Len(pattern))

RegExpTestAnchored(pattern, atStart, atEnd, text) ==
  RegExpTestAtoms(RegExpAtoms(RegExpBody(pattern, atStart, atEnd)), atStart, atEnd, text)

\* new RegExp(pattern).test(text) of a pattern that compiles
RegExpTest(pattern, text) ==
  RegExpTestAnchored(pattern, StartsWith(pattern, "^"),
                     EndsWith(pattern, "$") /\ ~EndsWith(pattern, "\\$"), text)

\* ------------------------------------------------------------------------
\* Types
\* ------------------------------------------------------------------------

PatternTypes == {"domain", "host", "exact_url", "host_path_prefix", "regex"}

EntrySources == {"backend", "user", "generated"}

\* ------------------------------------------------------------------------
\* State
\* ------------------------------------------------------------------------

VARIABLES
  store,    \* the records of object store "list_entries" (keyPath id)
  nextId,   \* the store's key generator (autoIncrement)
  clock,    \* Date.now()
  ret       \* the call that has just settled, with its outcome; NoCall between calls

vars == <<store, nextId, clock, ret>>

NoCall == [op |-> "none"]

\* ------------------------------------------------------------------------
\* The object store and its indexes
\* ------------------------------------------------------------------------

\* A record is in index list_name_pattern_type_domain only when all three
\* properties of the key path are valid keys (strings here).
InUniqueIndex(e) ==
  e.list_name # Undefined /\ e.pattern_type # Undefined /\ e.domain # Undefined

UniqueKey(e) == <<e.list_name, e.pattern_type, e.domain>>

\* the unique index refuses a record whose key another record already holds
ViolatesUnique(s, e) ==
  InUniqueIndex(e) /\ \E o \in s : o.id # e.id /\ InUniqueIndex(o) /\ UniqueKey(o) = UniqueKey(e)

\* what createListEntry and bulkCreateListEntries store: the entry with
\* created_at (the caller's, when truthy) and updated_at
WithTimestamps(entry, now) ==
  LET truthy == Has(entry.metadata, "created_at") /\ entry.metadata.created_at # 0
      stamps == [k \in {"created_at", "updated_at"} |->
                   IF k = "created_at" /\ truthy THEN entry.metadata.created_at ELSE now]
  IN [entry EXCEPT !.metadata = Spread(entry.metadata, stamps)]

\* a key generator that hands out the lowest key no record holds
AddAtLowestFreeKey(s, nid, value) ==
  LET free == CHOOSE k \in 1..(Cardinality(s) + 1) :
                /\ \A e \in s : e.id # k
                /\ \A j \in 1..(k - 1) : \E e \in s : e.id = j
      rec  == Spread(value, [k \in {"id"} |-> free])
  IN IF ViolatesUnique(s, rec)
     THEN [ok |-> FALSE, store |-> s, nextId |-> nid]
     ELSE [ok |-> TRUE, store |-> s \cup {rec}, nextId |-> nid + 1]

\* store.add(value) with a generated key: the record, or a ConstraintError
Add(s, nid, value) ==
  LET rec == Spread(value, [k \in {"id"} |-> nid])
  IN IF ViolatesUnique(s, rec)
     THEN [ok |-> FALSE, store |-> s, nextId |-> nid]
     ELSE [ok |-> TRUE, store |-> s \cup {rec}, nextId |-> nid + 1]

\* the adds of one readwrite transaction, in order; one failed add aborts the
\* transaction, which undoes every add of it and the key generator's advance
RECURSIVE AddAll(_, _, _, _)
AddAll(s, nid, entries, now) ==
  IF Len(entries) = 0 THEN [ok |-> TRUE, store |-> s, nextId |-> nid]
  ELSE LET first == Add(s, nid, WithTimestamps(Head(entries), now))
       IN IF ~first.ok THEN first
          ELSE AddAll(first.store, first.nextId, Tail(entries), now)

\* a transaction whose failed add leaves the earlier adds in place
BulkAddWithoutRollback(s, nid, entries, now) == AddAll(s, nid, entries, now)

BulkAdd(s, nid, entries, now) ==
  LET r == AddAll(s, nid, entries, now)
  IN IF r.ok THEN r ELSE [ok |-> FALSE, store |-> s, nextId |-> nid]

\* a delete of the whole list, whatever the source filter
DeleteWholeList(s, listName, sourceFilter) == {e \in s : e.list_name # listName}

\* a delete of the list's user entries only
DeleteUserEntries(s, listName, sourceFilter) ==
  {e \in s : ~(e.list_name = listName /\ e.source = "user")}

\* a delete that removes nothing
DeleteNothing(s, listName, sourceFilter) == s

\* the cursor delete over index list_name, or list_name_source with a filter
DeleteAllInList(s, listName, sourceFilter) ==
  IF sourceFilter # Undefined
  THEN {e \in s : ~(e.list_name = listName /\ e.source = sourceFilter)}
  ELSE {e \in s : e.list_name # listName}

\* a delete of the key range up to id
DeleteUpToId(s, id) == {e \in s : e.id > id}

DeleteById(s, id) == {e \in s : e.id # id}

\* index.get(key) on the unique index: the records at the key, none or one
FindByPattern(s, listName, patternType, domain) ==
  {e \in s : InUniqueIndex(e) /\ UniqueKey(e) = <<listName, patternType, domain>>}

\* ------------------------------------------------------------------------
\* exportList and importList
\* ------------------------------------------------------------------------

\* the members of metadata that hold a string or undefined; the other members
\* hold numbers
OptionalStrings == {"category", "description"}

\* JSON.parse(JSON.stringify(o)) of a metadata object: a member whose value is
\* undefined is left out of the text
JsonObject(o) ==
  [k \in {j \in DOMAIN o : ~(j \in OptionalStrings /\ o[j] = Undefined)} |-> o[k]]

\* a read of the whole store, whatever the list
getEntriesOfAllLists(s, listName) ==
  LET RECURSIVE Ordered(_)
      Ordered(S) ==
        IF S = {} THEN <<>>
        ELSE LET first == CHOOSE e \in S : \A o \in S : e.id <= o.id
             IN <<first>> \o Ordered(S \ {first})
  IN Ordered(s)

\* index.getAll(listName): the records of the list in the order of their keys
RECURSIVE InKeyOrder(_)
InKeyOrder(S) ==
  IF S = {} THEN <<>>
  ELSE LET first == CHOOSE e \in S : \A o \in S : e.id <= o.id
       IN <<first>> \o InKeyOrder(S \ {first})

getListEntries(s, listName) == InKeyOrder({e \in s : e.list_name = listName})

\* one element of the exported entries, as JSON.parse reads it back: domain and
\* pattern_type are left out when undefined
ExportedEntry(e) ==
  LET full == [domain |-> e.domain, pattern_type |-> e.pattern_type,
               metadata |-> JsonObject(e.metadata)]
  IN [k \in {j \in {"domain", "pattern_type"} : full[j] # Undefined} \cup {"metadata"} |->
        full[k]]

\* the text exportList returns, as the value JSON.parse makes of it
ExportData(s, listName, now) ==
  LET entries == getListEntries(s, listName)
  IN [parsed |-> TRUE, list_name |-> listName, exported_at |-> now, version |-> 1,
      entries |-> [i \in DOMAIN entries |-> ExportedEntry(entries[i])]]

\* ------------------------------------------------------------------------
\* mergeBackendList, step by step
\* ------------------------------------------------------------------------

\* typeof v === 'string'
IsString(v) == v # Undefined /\ v # Null

\* step 1b done with the lookup by (list_name, domain) that ignores the pattern
\* type: the lowest-id entry of the list with the candidate's pattern is removed
ResolveConflictByDomain(s, listName, entry) ==
  LET domain   == Get(entry, "domain")
      existing == {e \in s : e.list_name = listName /\ e.domain = domain}
  IN IF ~IsString(domain) \/ domain = "" THEN s
     ELSE IF existing # {}
          THEN DeleteById(s, (CHOOSE e \in existing : \A o \in existing : e.id <= o.id).id)
          ELSE s

\* step 1b for one candidate: a candidate with a usable key removes the entry
\* stored at that key, whatever its source
ResolveConflict(s, listName, entry) ==
  LET domain      == Get(entry, "domain")
      patternType == Get(entry, "pattern_type")
  IN IF ~IsString(domain) \/ domain = "" THEN s
     ELSE IF patternType = Undefined \/ patternType = "" THEN s
     ELSE LET existing == FindByPattern(s, listName, patternType, domain)
          IN IF existing # {} THEN DeleteById(s, (CHOOSE e \in existing : TRUE).id) ELSE s

RECURSIVE ResolveConflicts(_, _, _)
ResolveConflicts(s, listName, entries) ==
  IF Len(entries) = 0 THEN s
  ELSE ResolveConflicts(ResolveConflict(s, listName, Head(entries)), listName, Tail(entries))

\* step 2's test of one candidate: the ones that are not skipped
IsValidCandidate(entry) ==
  LET domain      == Get(entry, "domain")
      patternType == Get(entry, "pattern_type")
  IN IF ~IsString(domain) \/ domain = "" \/ patternType = Undefined \/ patternType = ""
     THEN FALSE
     ELSE IF patternType = "domain" /\ ~IsStrict(domain) THEN FALSE
     ELSE TRUE

\* a new entry that takes its list and its source from the candidate when the
\* candidate names them
CandidateEntry(listName, entry, now) ==
  [list_name    |-> IF Has(entry, "list_name") THEN entry.list_name ELSE listName,
   domain       |-> Get(entry, "domain"),
   pattern_type |-> Get(entry, "pattern_type"),
   source       |-> IF Has(entry, "source") THEN entry.source ELSE "backend",
   metadata     |-> Spread(IF Has(entry, "metadata") THEN entry.metadata ELSE EmptyObject,
                           [k \in {"sync_timestamp"} |-> now])]

\* step 2's newEntries.push(...)
BackendEntry(listName, entry, now) ==
  [list_name    |-> listName,
   domain       |-> Get(entry, "domain"),
   pattern_type |-> Get(entry, "pattern_type"),
   source       |-> "backend",
   metadata     |-> Spread(IF Has(entry, "metadata") THEN entry.metadata ELSE EmptyObject,
                           [k \in {"sync_timestamp"} |-> now])]

RECURSIVE NewEntries(_, _, _)
NewEntries(listName, entries, now) ==
  IF Len(entries) = 0 THEN <<>>
  ELSE (IF IsValidCandidate(Head(entries))
        THEN <<BackendEntry(listName, Head(entries), now)>> ELSE <<>>)
       \o NewEntries(listName, Tail(entries), now)

\* a merge that skips step 1 and keeps the list's backend entries
MergeStoreKeepingBackend(s, nid, listName, entries, now) ==
  LET resolved   == ResolveConflicts(s, listName, entries)
      newEntries == NewEntries(listName, entries, now)
  IN IF Len(newEntries) > 0 THEN BulkAdd(resolved, nid, newEntries, now)
     ELSE [ok |-> TRUE, store |-> resolved, nextId |-> nid]

\* the whole merge run without interruption: [ok, store, nextId]
MergeStore(s, nid, listName, entries, now) ==
  LET cleared    == DeleteAllInList(s, listName, "backend")
      resolved   == ResolveConflicts(cleared, listName, entries)
      newEntries == NewEntries(listName, entries, now)
      inserted   == BulkAdd(resolved, nid, newEntries, now)
  IN IF Len(newEntries) > 0 THEN inserted
     ELSE [ok |-> TRUE, store |-> resolved, nextId |-> nid]

\* a loop over the lists of a configuration that ends at the first merge that
\* throws
RECURSIVE SyncListsUntilFailure(_, _, _, _)
SyncListsUntilFailure(s, nid, config, now) ==
  IF Len(config) = 0 THEN [store |-> s, nextId |-> nid]
  ELSE IF ~Head(config).isArray THEN SyncListsUntilFailure(s, nid, Tail(config), now)
  ELSE LET m == MergeStore(s, nid, Head(config).listName, Head(config).entries, now)
       IN IF m.ok THEN SyncListsUntilFailure(m.store, m.nextId, Tail(config), now)
          ELSE [store |-> m.store, nextId |-> m.nextId]

\* parseAndSyncLists' loop over the lists of a configuration, in key order: a
\* value that is not an array is skipped, a merge that throws is caught and
\* the loop goes on from the store that merge left
RECURSIVE SyncLists(_, _, _, _)
RECURSIVE SyncRest(_, _, _)
SyncLists(s, nid, config, now) ==
  IF Len(config) = 0 THEN [store |-> s, nextId |-> nid]
  ELSE IF ~Head(config).isArray THEN SyncLists(s, nid, Tail(config), now)
  ELSE SyncRest(MergeStore(s, nid, Head(config).listName, Head(config).entries, now),
                Tail(config), now)

SyncRest(merged, rest, now) == SyncLists(merged.store, merged.nextId, rest, now)

\* ------------------------------------------------------------------------
\* matchesPattern
\* ------------------------------------------------------------------------

\* a domain match that compares the hostname with the pattern
DomainMatchesHost(hostname, pattern) ==
  IsStrict(pattern) /\ normalizeLeadingWww(hostname) = normalizeLeadingWww(Trim(pattern))

\* case 'domain', from the parse of the hostname on
DomainMatchesParsed(urlParsed, pattern) ==
  IF urlParsed.error THEN FALSE
  ELSE IF urlParsed.domain = Null \/ urlParsed.domain = "" THEN FALSE
  ELSE urlParsed.domain = normalizeLeadingWww(Trim(pattern))

\* case 'domain'
DomainMatches(hostname, pattern) ==
  IF ~IsStrict(pattern) THEN FALSE
  ELSE DomainMatchesParsed(PslParse(hostname), pattern)

\* the host portion of a pattern; [ok, host], not ok when new URL(pattern)
\* throws
PatternHostOfUrl(patternUrl) == [ok |-> patternUrl.ok, host |-> patternUrl.hostname]

PatternHost(pattern) ==
  IF Includes(pattern, "://") THEN PatternHostOfUrl(ParseURL(pattern))
  ELSE IF Includes(pattern, "/") THEN [ok |-> TRUE, host |-> Split(pattern, "/")[1]]
  ELSE [ok |-> TRUE, host |-> pattern]

\* a host match that also takes the subdomains of the pattern's host
HostMatchesSubdomains(hostname, pattern) ==
  /\ PatternHost(pattern).ok
  /\ normalizeLeadingWww(PatternHost(pattern).host) # ""
  /\ EndsWith(normalizeLeadingWww(hostname), normalizeLeadingWww(PatternHost(pattern).host))

\* case 'host', from the normalised hosts on
HostsMatch(urlHostNormalized, patternHostNormalized) ==
  IF patternHostNormalized = "" THEN FALSE
  ELSE urlHostNormalized = patternHostNormalized

HostMatchesPatternHost(hostname, patternHost) ==
  IF ~patternHost.ok THEN FALSE
  ELSE HostsMatch(normalizeLeadingWww(hostname), normalizeLeadingWww(patternHost.host))

\* case 'host'
HostMatches(hostname, pattern) == HostMatchesPatternHost(hostname, PatternHost(pattern))

\* the host and the path of a host_path_prefix pattern; [ok, host, path], not
\* ok when new URL(pattern) throws or the pattern has no "/"
PatternHostAndPath(pattern, patternUrl, firstSlashIdx) ==
  IF Includes(pattern, "://")
  THEN [ok |-> patternUrl.ok, host |-> patternUrl.hostname, path |-> patternUrl.pathname]
  ELSE IF firstSlashIdx = 0 THEN [ok |-> FALSE, host |-> "", path |-> ""]
  ELSE [ok |-> TRUE, host |-> SubSeq(pattern, 1, firstSlashIdx - 1),
        path |-> SubSeq(pattern, firstSlashIdx, Len(pattern))]

\* a comparison of the paths that takes equal paths only
PathMatchesExactly(urlPath, patternPath) == urlPath = patternPath

\* the comparison of the paths, patternPath starting with "/"
PathMatches(urlPath, patternPath) ==
  IF StartsWith(urlPath, patternPath) THEN TRUE
  ELSE IF EndsWith(patternPath, "/")
  THEN urlPath = SubSeq(patternPath, 1, Len(patternPath) - 1)
  ELSE FALSE

HostPathPrefixMatchesParts(hostname, urlPath, parts) ==
  IF ~parts.ok THEN FALSE
  ELSE IF ~HostsMatch(normalizeLeadingWww(hostname), normalizeLeadingWww(parts.host))
  THEN FALSE
  ELSE PathMatches(urlPath, IF StartsWith(parts.path, "/") THEN parts.path
                            ELSE "/" \o parts.path)

\* case 'host_path_prefix'
HostPathPrefixMatches(hostname, urlPath, pattern) ==
  HostPathPrefixMatchesParts(hostname, urlPath,
    PatternHostAndPath(pattern, ParseURL(pattern), IndexOf(pattern, "/")))

\* case 'regex'
RegexMatches(url, pattern) ==
  IF RegExpFails(pattern) THEN FALSE ELSE RegExpTest(pattern, url)

\* a matcher that compares exact_url patterns before it parses the url
matchesPatternUnparsed(url, pattern, patternType) ==
  IF patternType = "exact_url" THEN url = pattern ELSE FALSE

\* the switch of matchesPattern, for a url that parses
MatchesParsed(url, urlObj, pattern, patternType) ==
  CASE patternType = "domain" -> DomainMatches(urlObj.hostname, pattern)
    [] patternType = "host" -> HostMatches(urlObj.hostname, pattern)
    [] patternType = "exact_url" -> url = pattern
    [] patternType = "host_path_prefix" ->
         HostPathPrefixMatches(urlObj.hostname, urlObj.pathname, pattern)
    [] patternType = "regex" -> RegexMatches(url, pattern)
    [] OTHER -> FALSE

MatchesUrl(url, urlObj, pattern, patternType) ==
  IF ~urlObj.ok THEN FALSE ELSE MatchesParsed(url, urlObj, pattern, patternType)

\* matchesPattern(url, pattern, patternType): what is thrown inside is caught
\* and gives false
matchesPattern(url, pattern, patternType) ==
  MatchesUrl(url, ParseURL(url), pattern, patternType)

\* matchesPattern(url, entry.domain, entry.pattern_type) of a stored entry.  A
\* domain that is no string makes the cases that call a string method throw;
\* new RegExp(undefined) is the empty expression and new RegExp(null) is /null/
EntryMatches(url, entry) ==
  IF IsString(entry.domain) THEN matchesPattern(url, entry.domain, entry.pattern_type)
  ELSE IF entry.pattern_type # "regex" \/ ~ParseURL(url).ok THEN FALSE
  ELSE IF entry.domain = Undefined THEN TRUE
  ELSE RegExpTest("null", url)

\* the loop of matchDomainAgainstList: the first entry that matches, or null
RECURSIVE FirstMatch(_, _)
FirstMatch(url, entries) ==
  IF Len(entries) = 0 THEN [isNull |-> TRUE]
  ELSE IF EntryMatches(url, Head(entries)) THEN [isNull |-> FALSE, entry |-> Head(entries)]
  ELSE FirstMatch(url, Tail(entries))

\* ------------------------------------------------------------------------
\* Inputs of the model
\* ------------------------------------------------------------------------

Lists == {"L1", "L2"}

\* a registrable domain and a subdomain of it
PatternInputs == {"a.com", "m.a.com"}

TypeInputs == {"domain", "host"}

MetaInputs == {EmptyObject}

\* the sequences over S of length at most n
SeqsUpTo(S, n) == UNION {[1..k -> S] : k \in 0..n}

\* createListEntry's entries: user entries of L1 at every key, and one of L2
EntryInputs ==
  [list_name : {"L1"}, domain : PatternInputs, pattern_type : TypeInputs,
   source : {"user"}, metadata : MetaInputs]
  \cup [list_name : {"L2"}, domain : {"a.com"}, pattern_type : {"host"},
        source : {"user"}, metadata : MetaInputs]

\* bulkCreateListEntries' arrays: generated entries of L1, a host and a
\* subdomain given as a domain pattern
BulkKeyInputs == {<<"host", "a.com">>, <<"domain", "m.a.com">>}

BulkInputs ==
  {[i \in DOMAIN ks |-> [list_name |-> "L1", domain |-> ks[i][2], pattern_type |-> ks[i][1],
                         source |-> "generated", metadata |-> EmptyObject]] :
     ks \in SeqsUpTo(BulkKeyInputs, MaxBatch)}

\* entries of an import file: one with every property, one without pattern_type
JsonEntryInputs ==
  {[domain |-> "m.a.com", pattern_type |-> "domain", metadata |-> EmptyObject],
   [domain |-> "a.com"]}

\* JSON.parse(jsonData): a SyntaxError, an object without an entries array, or
\* an object with one
ImportInputs ==
  {[parsed |-> FALSE], [parsed |-> TRUE]}
  \cup {[parsed |-> TRUE, entries |-> es] : es \in SeqsUpTo(JsonEntryInputs, MaxBatch)}

\* a text whose entries member is not an array (null)
NoArrayInputs == {[parsed |-> TRUE, entries |-> Null, isArray |-> FALSE]}

\* entries the lists hold before an export or an import: user entries of both
\* lists, one of them with a metadata member that is undefined
ExportEntryInputs ==
  [list_name : Lists, domain : {"a.com"}, pattern_type : {"host"},
   source : {"user"}, metadata : {EmptyObject}]
  \cup {[list_name |-> "L1", domain |-> "m.a.com", pattern_type |-> "host",
         source |-> "user", metadata |-> [category |-> Undefined]]}

UpdateInputs ==
  {[domain |-> "a.com"], [domain |-> "m.a.com"], [pattern_type |-> "domain"],
   [pattern_type |-> "host"]}

\* updates that carry an id of their own
IdUpdateInputs == {[id |-> MaxId], [domain |-> "m.a.com", id |-> MaxId]}

\* direct single-entry writes: the patterns above and a www. host
DirectPatternInputs == PatternInputs \cup {"www.a.com"}

DirectEntryInputs ==
  [list_name : {"L1"}, domain : DirectPatternInputs, pattern_type : TypeInputs,
   source : {"user"}, metadata : MetaInputs]

DirectUpdateInputs ==
  {[domain |-> d] : d \in DirectPatternInputs} \cup {[pattern_type |-> t] : t \in TypeInputs}

\* the entries a list holds before a merge: user and generated entries of L1
MergeEntryInputs ==
  {[list_name |-> "L1", domain |-> "a.com", pattern_type |-> "host",
    source |-> "user", metadata |-> EmptyObject],
   [list_name |-> "L1", domain |-> "a.com", pattern_type |-> "domain",
    source |-> "generated", metadata |-> EmptyObject],
   [list_name |-> "L1", domain |-> "m.a.com", pattern_type |-> "host",
    source |-> "user", metadata |-> EmptyObject]}

\* entries of a configuration's list: a registered domain, a host, a subdomain
\* given as a domain pattern, an entry without pattern_type and one with an
\* empty pattern
CandidateInputs ==
  {[domain |-> "a.com", pattern_type |-> "domain"],
   [domain |-> "a.com", pattern_type |-> "host"],
   [domain |-> "m.a.com", pattern_type |-> "domain"],
   [domain |-> "a.com"],
   [domain |-> "", pattern_type |-> "host"]}

MergeInputs == SeqsUpTo(CandidateInputs, MaxMergeBatch)

\* candidates of a configuration's list whose pattern_type is a PatternType and
\* one whose pattern_type is some other string
TypeCandidateInputs ==
  {[domain |-> "a.com", pattern_type |-> "host"],
   [domain |-> "a.com", pattern_type |-> "regex"],
   [domain |-> "a.com", pattern_type |-> "glob"]}

TypeMergeInputs == SeqsUpTo(TypeCandidateInputs, MaxMergeBatch)

\* the entries a store holds before a configuration with several lists is synced
SyncEntryInputs ==
  {[list_name |-> l, domain |-> "a.com", pattern_type |-> "host",
    source |-> "user", metadata |-> EmptyObject] : l \in Lists}

\* values of a list in a configuration: arrays of candidates, and a value that
\* is not an array
ConfigValueInputs ==
  {[isArray |-> FALSE]}
  \cup {[isArray |-> TRUE, entries |-> es] :
          es \in SeqsUpTo({[domain |-> "a.com", pattern_type |-> "host"],
                           [domain |-> "a.com", pattern_type |-> "domain"]}, MaxBatch)}

\* a configuration's lists section, its keys in the order Object.keys gives
ConfigInputs ==
  {<<>>}
  \cup {<<Spread([listName |-> l], v)>> : l \in Lists, v \in ConfigValueInputs}
  \cup {<<Spread([listName |-> l[1]], v), Spread([listName |-> l[2]], w)>> :
          l \in {<<"L1", "L2">>, <<"L2", "L1">>}, v \in ConfigValueInputs, w \in ConfigValueInputs}

\* lists sections of the configurations that are fetched: none or one list
FetchedListsInputs == {c \in ConfigInputs : Len(c) <= 1}

\* what fetch(configUrl) and response.json() give: a network error, a response
\* that is not OK (whatever its body), a body that is not JSON, a
\* configuration without a lists section, and configurations with one
FetchInputs ==
  {[fetched |-> FALSE, message |-> "Failed to fetch"]}
  \cup {[fetched |-> TRUE, ok |-> FALSE, status |-> 500,
         statusText |-> "Internal Server Error", lists |-> c] : c \in FetchedListsInputs}
  \cup {[fetched |-> TRUE, ok |-> TRUE, json |-> FALSE, message |-> "Unexpected token"]}
  \cup {[fetched |-> TRUE, ok |-> TRUE, json |-> TRUE]}
  \cup {[fetched |-> TRUE, ok |-> TRUE, json |-> TRUE, lists |-> c] : c \in FetchedListsInputs}

\* batches of a merge that the clock advances during
StepMergeInputs ==
  SeqsUpTo({[domain |-> "a.com", pattern_type |-> "host"],
            [domain |-> "a.com", pattern_type |-> "domain"]}, MaxBatch)

\* urls given to the matcher: the domain, its www host, a subdomain, another
\* domain, an upper-case host without a path, a domain under a two-label
\* suffix, a host that is a suffix, and strings that are no absolute URL
UrlInputs ==
  {"https://a.com/", "https://www.a.com/x", "https://m.a.com/x", "https://b.com/x",
   "http://A.com", "https://a.co.uk/", "https://com/", "https://www./",
   "a.com", "", "https://"}

\* patterns given to the matcher
MatchPatternInputs ==
  {"a.com", "www.a.com", " A.com ", "m.a.com", "b.com", "a.co.uk", "co.uk", "com", "",
   "www.", "a.com/x", "/x", "https://a.com/x", "https://www.a.com/x", "https://", "(",
   "a.c", "^https://a\\.com/$"}

\* urls given to the matcher of host_path_prefix patterns: paths that are a
\* prefix of, equal to and longer than the patterns' path, with and without a
\* query and a fragment, on the host, its www host, a subdomain and another
\* domain; and a string that is no absolute URL
PathUrlInputs ==
  {"https://a.com/", "https://a.com/m", "https://a.com/ma", "https://a.com/ma/",
   "https://a.com/ma/d", "https://a.com/mad", "https://www.a.com/ma/d",
   "https://m.a.com/ma", "https://b.com/ma", "https://a.com/m?q=/ma/d",
   "https://a.com/ma?q=1#f", "https://a.com/m#/ma", "https://a.com", "a.com/ma"}

\* host_path_prefix patterns: host and path, with a trailing "/", as a full
\* URL, without a "/", without a host, and with a host that is only "www."
PathPatternInputs ==
  {"a.com/ma", "a.com/ma/", "www.a.com/ma", "A.com/ma", "a.com/", "a.com", "/ma",
   "www./ma", "https://a.com/ma", "https://a.com/ma/", "https://a.com", "https://",
   "b.com/ma", "a.com/ma/d"}

\* urls matched against the lists: the domain, a subdomain, another domain and
\* a string that is no absolute URL
ListUrlInputs == {"https://a.com/", "https://m.a.com/x", "https://b.com/x", "a.com"}

\* the pattern types, and a string that is none
MatchTypeInputs == PatternTypes \cup {"glob"}

\* batches for merges that run concurrently: two keys, one key, one key twice
ConcurrentMergeInputs ==
  {<<[domain |-> "a.com", pattern_type |-> "host"],
     [domain |-> "a.com", pattern_type |-> "domain"]>>,
   <<[domain |-> "a.com", pattern_type |-> "host"]>>,
   <<[domain |-> "a.com", pattern_type |-> "host"],
     [domain |-> "a.com", pattern_type |-> "host"]>>}

\* batches for a merge that other callers interleave with, one of them with
\* a candidate that names another list and another source
InterleavedMergeInputs ==
  ConcurrentMergeInputs
  \cup {<<[domain |-> "a.com", pattern_type |-> "host",
           list_name |-> "L2", source |-> "user"]>>}

\* the configurations whose merges are followed one store operation at a
\* time: each list's value is no array, or one of the batches above
StepConfigValueInputs ==
  {[isArray |-> FALSE]} \cup {[isArray |-> TRUE, entries |-> es] : es \in ConcurrentMergeInputs}

StepConfigInputs ==
  {<<>>}
  \cup {<<Spread([listName |-> l], v)>> : l \in Lists, v \in StepConfigValueInputs}
  \cup {<<Spread([listName |-> l[1]], v), Spread([listName |-> l[2]], w)>> :
          l \in {<<"L1", "L2">>, <<"L2", "L1">>},
          v \in StepConfigValueInputs, w \in StepConfigValueInputs}

\* entries with a category, and updates of each top-level field, of metadata
\* keys the entry has and has not, of updated_at, and of the id
FieldEntryInputs ==
  [list_name : {"L1"}, domain : {"a.com"}, pattern_type : {"host"},
   source : {"user"}, metadata : {[category |-> "x"]}]

FieldUpdateInputs ==
  {[domain |-> "m.a.com"],
   [pattern_type |-> "regex"],
   [list_name |-> "L2", source |-> "generated"],
   [metadata |-> [category |-> "y"]],
   [domain |-> "a.com", metadata |-> [description |-> "d"]],
   [metadata |-> [updated_at |-> MaxClock + 2]],
   [id |-> MaxId],
   [domain |-> "m.a.com", id |-> MaxId]}

\* what the fetch gives when the configuration has up to two lists: failures
\* of the fetch, a configuration without a lists section, and configurations
\* whose lists are skipped, merged, or fail to merge
ListsResponseInputs ==
  {[fetched |-> FALSE, message |-> "Failed to fetch"],
   [fetched |-> TRUE, ok |-> TRUE, json |-> FALSE, message |-> "Unexpected token"],
   [fetched |-> TRUE, ok |-> TRUE, json |-> TRUE]}
  \cup {[fetched |-> TRUE, ok |-> o, status |-> IF o THEN 200 ELSE 500,
         statusText |-> IF o THEN "OK" ELSE "Internal Server Error",
         json |-> TRUE, lists |-> c] : o \in BOOLEAN, c \in StepConfigInputs}

\* names of lists whose order by code units is not their alphabetical order
ListNameInputs == {"b", "B", "a1"}

\* one user entry per named list
NamedEntryInputs ==
  {[list_name |-> l, domain |-> "a.com", pattern_type |-> "host",
    source |-> "user", metadata |-> EmptyObject] : l \in ListNameInputs}

\* batches merged into a named list: none, or the candidate at the user
\* entries' key
NamedMergeInputs == {<<>>, <<[domain |-> "a.com", pattern_type |-> "host"]>>}

\* metadata a caller passes: none, a created_at of 0, a created_at later than
\* any value of the clock, an updated_at later than any value of the clock
TimedMetaInputs ==
  {EmptyObject,
   [created_at |-> 0],
   [created_at |-> MaxClock + 1],
   [updated_at |-> MaxClock + 2]}

TimedEntryInputs ==
  [list_name : {"L1"}, domain : PatternInputs, pattern_type : {"host"},
   source : {"user"}, metadata : TimedMetaInputs]

TimedUpdateInputs == {[metadata |-> m] : m \in TimedMetaInputs}

\* ------------------------------------------------------------------------
\* Operations.  A call is made when no call is outstanding (the caller awaits
\* each promise); ret holds the settled call until the caller takes it.
\* ------------------------------------------------------------------------

Settled(op, arg, status, value) ==
  [op |-> op, arg |-> arg, status |-> status, value |-> value, again |-> FALSE]

Idle == ret = NoCall

\* v is null or undefined (the left side of ??, or a falsy object)
Nullish(v) == v = Undefined \/ v = Null

createListEntry(entry) ==
  LET r == Add(store, nextId, WithTimestamps(entry, clock))
  IN /\ Idle
     /\ IF entry.pattern_type = "domain" /\ ~IsStrict(entry.domain)
        THEN /\ ret' = Settled("createListEntry", entry, "invalid_pattern", Undefined)
             /\ UNCHANGED <<store, nextId>>
        ELSE /\ r.nextId <= MaxId + 1
             /\ store' = r.store
             /\ nextId' = r.nextId
             /\ ret' = IF r.ok THEN Settled("createListEntry", entry, "ok", nextId)
                       ELSE Settled("createListEntry", entry, "constraint_error", Undefined)
     /\ UNCHANGED clock

\* an update that resolves whether or not an entry has the id
updateListEntryLenient(id, updates) ==
  /\ Idle
  /\ store' = {IF e.id = id THEN Spread(e, updates) ELSE e : e \in store}
  /\ ret' = Settled("updateListEntry", [id |-> id, updates |-> updates], "ok", Undefined)
  /\ UNCHANGED <<nextId, clock>>

\* an update that stores the metadata of the updates in place of the entry's
updateListEntryReplacingMetadata(id, updates) ==
  LET found       == {e \in store : e.id = id}
      entry       == CHOOSE e \in found : TRUE
      metadata    == Spread(IF Has(updates, "metadata") THEN updates.metadata
                            ELSE EmptyObject,
                            [k \in {"updated_at"} |-> clock])
      updatedEntry == Spread(Spread(entry, updates),
                             [k \in {"id", "metadata"} |-> IF k = "id" THEN id ELSE metadata])
      arg         == [id |-> id, updates |-> updates]
  IN /\ Idle
     /\ IF found = {}
        THEN /\ ret' = Settled("updateListEntry", arg, "not_found", Undefined)
             /\ UNCHANGED store
        ELSE IF ViolatesUnique(store, updatedEntry)
        THEN /\ ret' = Settled("updateListEntry", arg, "constraint_error", Undefined)
             /\ UNCHANGED store
        ELSE /\ ret' = Settled("updateListEntry", arg, "ok", Undefined)
             /\ store' = (store \ found) \cup {updatedEntry}
     /\ UNCHANGED <<nextId, clock>>

updateListEntry(id, updates) ==
  LET found       == {e \in store : e.id = id}
      entry       == CHOOSE e \in found : TRUE
      nextDomain  == IF Nullish(Get(updates, "domain")) THEN entry.domain ELSE updates.domain
      nextPatternType ==
        IF Nullish(Get(updates, "pattern_type")) THEN entry.pattern_type
        ELSE updates.pattern_type
      metadata    == Spread(Spread(entry.metadata,
                                   IF Has(updates, "metadata") THEN updates.metadata
                                   ELSE EmptyObject),
                            [k \in {"updated_at"} |-> clock])
      updatedEntry == Spread(Spread(entry, updates),
                             [k \in {"id", "metadata"} |-> IF k = "id" THEN id ELSE metadata])
      arg         == [id |-> id, updates |-> updates]
  IN /\ Idle
     /\ IF found = {}
        THEN /\ ret' = Settled("updateListEntry", arg, "not_found", Undefined)
             /\ UNCHANGED store
        ELSE IF nextPatternType = "domain" /\ ~IsStrict(nextDomain)
        THEN /\ ret' = Settled("updateListEntry", arg, "invalid_pattern", Undefined)
             /\ UNCHANGED store
        ELSE IF ViolatesUnique(store, updatedEntry)
        THEN /\ ret' = Settled("updateListEntry", arg, "constraint_error", Undefined)
             /\ UNCHANGED store
        ELSE /\ ret' = Settled("updateListEntry", arg, "ok", Undefined)
             /\ store' = (store \ found) \cup {updatedEntry}
     /\ UNCHANGED <<nextId, clock>>

deleteListEntry(id) ==
  /\ Idle
  /\ store' = DeleteById(store, id)
  /\ ret' = Settled("deleteListEntry", id, "ok", Undefined)
  /\ UNCHANGED <<nextId, clock>>

\* the caller repeats the delete it has just made, with the same id
deleteListEntryAgain ==
  /\ ret.op = "deleteListEntry"
  /\ store' = DeleteById(store, ret.arg)
  /\ ret' = [Settled("deleteListEntry", ret.arg, "ok", Undefined) EXCEPT !.again = TRUE]
  /\ UNCHANGED <<nextId, clock>>

deleteAllEntriesInList(listName, sourceFilter) ==
  /\ Idle
  /\ store' = DeleteAllInList(store, listName, sourceFilter)
  /\ ret' = Settled("deleteAllEntriesInList",
                    [listName |-> listName, sourceFilter |-> sourceFilter], "ok", Undefined)
  /\ UNCHANGED <<nextId, clock>>

bulkCreateListEntries(entries) ==
  LET r == BulkAdd(store, nextId, entries, clock)
  IN /\ Idle
     /\ r.nextId <= MaxId + 1
     /\ store' = r.store
     /\ nextId' = r.nextId
     /\ ret' = IF r.ok
               THEN Settled("bulkCreateListEntries", entries, "ok",
                            [i \in DOMAIN entries |-> nextId + i - 1])
               ELSE Settled("bulkCreateListEntries", entries, "constraint_error", Undefined)
     /\ UNCHANGED clock

\* importList's entries.map(...): no source is set
ImportedEntry(listName, entry) ==
  [list_name    |-> listName,
   domain       |-> Get(entry, "domain"),
   pattern_type |-> Get(entry, "pattern_type"),
   source       |-> Undefined,
   metadata     |-> IF Has(entry, "metadata") THEN entry.metadata ELSE EmptyObject]

\* an import that clears the list before it looks at the text
ImportClearingFirst(listName, data, again) ==
  /\ store' = DeleteAllInList(store, listName, Undefined)
  /\ ret' = [Settled("importList", [listName |-> listName, data |-> data], "error", Undefined)
               EXCEPT !.again = again]
  /\ UNCHANGED <<nextId, clock>>

\* the effect of one importList call
ImportCall(listName, data, again) ==
  LET arg     == [listName |-> listName, data |-> data]
      cleared == DeleteAllInList(store, listName, Undefined)
      entries == [i \in DOMAIN data.entries |-> ImportedEntry(listName, data.entries[i])]
      r       == BulkAdd(cleared, nextId, entries, clock)
  IN /\ IF \/ ~data.parsed
           \/ ~Has(data, "entries")
           \/ (Has(data, "isArray") /\ ~data.isArray)
        THEN /\ ret' = [Settled("importList", arg, "error", Undefined) EXCEPT !.again = again]
             /\ UNCHANGED <<store, nextId>>
        ELSE /\ r.nextId <= MaxId + 1
             /\ store' = r.store
             /\ nextId' = r.nextId
             /\ ret' = [IF r.ok THEN Settled("importList", arg, "ok", Len(entries))
                        ELSE Settled("importList", arg, "error", Undefined)
                          EXCEPT !.again = again]
     /\ UNCHANGED clock

importList(listName, data) ==
  /\ Idle
  /\ ImportCall(listName, data, FALSE)

exportList(listName) ==
  /\ Idle
  /\ ret' = Settled("exportList", listName, "ok", ExportData(store, listName, clock))
  /\ UNCHANGED <<store, nextId, clock>>

\* importList(L, exportList(L)): the caller imports the text that the export
\* of the list has just returned
importListExported ==
  /\ ret.op = "exportList"
  /\ ImportCall(ret.arg, ret.value, TRUE)

\* the effect of one mergeBackendList call that nothing interleaves with
MergeCall(listName, entries, again) ==
  LET r   == MergeStore(store, nextId, listName, entries, clock)
      arg == [listName |-> listName, entries |-> entries]
  IN /\ r.nextId <= MaxId + 1
     /\ store' = r.store
     /\ nextId' = r.nextId
     /\ ret' = [Settled("mergeBackendList", arg, IF r.ok THEN "ok" ELSE "rejected", Undefined)
                  EXCEPT !.again = again]
     /\ UNCHANGED clock

mergeBackendList(listName, entries) ==
  /\ Idle
  /\ MergeCall(listName, entries, FALSE)

\* the caller repeats the merge it has just made, with the same arguments
mergeBackendListAgain ==
  /\ ret.op = "mergeBackendList"
  /\ MergeCall(ret.arg.listName, ret.arg.entries, TRUE)

parseAndSyncLists(listsConfig) ==
  LET r == SyncLists(store, nextId, listsConfig, clock)
  IN /\ Idle
     /\ r.nextId <= MaxId + 1
     /\ store' = r.store
     /\ nextId' = r.nextId
     /\ ret' = Settled("parseAndSyncLists", listsConfig, "ok", Undefined)
     /\ UNCHANGED clock

\* mergeBackendList step by step.  While the call is pending, ret holds its
\* arguments, the step it is at (pc), the index i of the candidate that step 2
\* looks at next, the newEntries built so far, and the value that Date.now()
\* had when the call was made (started).
Pending(listName, entries, pc, i, newEntries, started) ==
  [op |-> "mergeBackendList", arg |-> [listName |-> listName, entries |-> entries],
   status |-> "pending", value |-> Undefined, again |-> FALSE,
   pc |-> pc, i |-> i, newEntries |-> newEntries, started |-> started]

InMerge(pc) == ~Idle /\ ret.status = "pending" /\ ret.pc = pc

\* step 1: the list's backend entries are deleted
mergeDeleteBackend(listName, entries) ==
  /\ Idle
  /\ store' = DeleteAllInList(store, listName, "backend")
  /\ ret' = Pending(listName, entries, "resolve", 1, <<>>, clock)
  /\ UNCHANGED <<nextId, clock>>

\* step 1b: the entries at the candidates' keys are deleted
mergeResolveConflicts ==
  /\ InMerge("resolve")
  /\ store' = ResolveConflicts(store, ret.arg.listName, ret.arg.entries)
  /\ ret' = [ret EXCEPT !.pc = "prepare"]
  /\ UNCHANGED <<nextId, clock>>

\* step 2, one candidate: a valid one is pushed with the value Date.now() has
\* at that moment
mergePrepareEntry ==
  /\ InMerge("prepare")
  /\ ret.i <= Len(ret.arg.entries)
  /\ ret' = [ret EXCEPT
               !.i = ret.i + 1,
               !.newEntries =
                 IF IsValidCandidate(ret.arg.entries[ret.i])
                 THEN Append(ret.newEntries,
                             BackendEntry(ret.arg.listName, ret.arg.entries[ret.i], clock))
                 ELSE ret.newEntries]
  /\ UNCHANGED <<store, nextId, clock>>

\* step 3: the new entries are stored in one transaction
mergeInsert ==
  LET r == BulkAdd(store, nextId, ret.newEntries, clock)
  IN /\ InMerge("prepare")
     /\ ret.i > Len(ret.arg.entries)
     /\ IF Len(ret.newEntries) > 0
        THEN /\ r.nextId <= MaxId + 1
             /\ store' = r.store
             /\ nextId' = r.nextId
             /\ ret' = Settled("mergeBackendList", ret.arg,
                               IF r.ok THEN "ok" ELSE "rejected", Undefined)
        ELSE /\ ret' = Settled("mergeBackendList", ret.arg, "ok", Undefined)
             /\ UNCHANGED <<store, nextId>>
     /\ UNCHANGED clock

\* time passes while a merge is pending
TickInMerge ==
  /\ ~Idle
  /\ ret.status = "pending"
  /\ clock < MaxClock
  /\ clock' = clock + 1
  /\ UNCHANGED <<store, nextId, ret>>

\* mergeBackendList calls in flight, one store operation at a time.  ret holds
\* the calls of the caller: of each its list, its batch, the step it is at
\* (pc), the index i of the candidate that step 1b looks at next, the id that
\* the last lookup found, the ids of the entries it has deleted, and how it
\* has settled.  A list of a configuration whose value is no array has isArray
\* FALSE.
Call(listName, isArray, entries) ==
  [listName |-> listName, isArray |-> isArray, entries |-> entries,
   pc |-> "start", i |-> 1, found |-> 0, deleted |-> {}, status |-> "pending"]

\* the calls that have not finished
Unfinished(calls) == {p \in DOMAIN calls : calls[p].pc # "done"}

\* any call of a loop that has not finished may run, as if the loop awaited
\* none of them
AnyUnfinished(calls) == {p \in DOMAIN calls : calls[p].pc # "done"}

\* the loop of parseAndSyncLists awaits each merge: the call that may run is
\* the first that has not finished
NextInOrder(calls) ==
  {p \in Unfinished(calls) : \A q \in Unfinished(calls) : p <= q}

\* what the caller holds of calls in flight; observed is what the last read
\* of another caller saw, previous the list's backend keys when the calls began
InFlight(op, arg, calls, observed, previous) ==
  [op |-> op, arg |-> arg,
   status |-> IF Unfinished(calls) = {} THEN "ok" ELSE "pending",
   value |-> Undefined, again |-> FALSE,
   calls |-> calls, observed |-> observed, previous |-> previous]

\* ret after call p has taken a step
Stepped(p, call) ==
  InFlight(ret.op, ret.arg, [ret.calls EXCEPT ![p] = call], ret.observed, ret.previous)

\* call p may take the step at pc
Runs(p, pc) ==
  /\ ~Idle
  /\ Has(ret, "calls")
  /\ p \in (IF ret.op = "parseAndSyncLists" THEN NextInOrder(ret.calls)
            ELSE Unfinished(ret.calls))
  /\ ret.calls[p].pc = pc

NothingRead == [read |-> FALSE]

\* no backend entry has the key <<>>
BackendKeysOf(s, listName) ==
  {<<e.pattern_type, e.domain>> : e \in {x \in s : x.list_name = listName /\ x.source = "backend"}}

\* n concurrent calls mergeBackendList(listName, entries)
startMerges(listName, entries, n) ==
  /\ Idle
  /\ ret' = InFlight("mergeBackendList", [listName |-> listName, entries |-> entries],
                     [p \in 1..n |-> Call(listName, TRUE, entries)],
                     NothingRead, BackendKeysOf(store, listName))
  /\ UNCHANGED <<store, nextId, clock>>

\* parseAndSyncLists(listsConfig): one call per list, in the order of the keys
startSync(listsConfig) ==
  /\ Idle
  /\ ret' = InFlight("parseAndSyncLists", listsConfig,
                     [p \in DOMAIN listsConfig |->
                        Call(listsConfig[p].listName, listsConfig[p].isArray,
                             IF listsConfig[p].isArray THEN listsConfig[p].entries ELSE <<>>)],
                     NothingRead, {})
  /\ UNCHANGED <<store, nextId, clock>>

\* a list whose value is no array is skipped; step 1 of a merge deletes the
\* list's backend entries
callDeleteBackend(p) ==
  /\ Runs(p, "start")
  /\ IF ~ret.calls[p].isArray
     THEN /\ ret' = Stepped(p, [ret.calls[p] EXCEPT !.pc = "done", !.status = "skipped"])
          /\ UNCHANGED store
     ELSE /\ store' = DeleteAllInList(store, ret.calls[p].listName, "backend")
          /\ ret' = Stepped(p, [ret.calls[p] EXCEPT
               !.pc = "lookup",
               !.deleted = {e.id : e \in {x \in store : x.list_name = ret.calls[p].listName
                                                         /\ x.source = "backend"}}])
  /\ UNCHANGED <<nextId, clock>>

\* the candidate of call c that step 1b is at has a key to look up
HasLookupKey(c) ==
  /\ IsString(Get(c.entries[c.i], "domain"))
  /\ Get(c.entries[c.i], "domain") # ""
  /\ Get(c.entries[c.i], "pattern_type") # Undefined
  /\ Get(c.entries[c.i], "pattern_type") # ""

\* what findListEntryByPattern finds for the candidate of call c
FoundFor(c) ==
  FindByPattern(store, c.listName, Get(c.entries[c.i], "pattern_type"),
                Get(c.entries[c.i], "domain"))

\* step 1b, findListEntryByPattern for one candidate
callLookup(p) ==
  /\ Runs(p, "lookup")
  /\ ret.calls[p].i <= Len(ret.calls[p].entries)
  /\ ret' = Stepped(p,
       IF HasLookupKey(ret.calls[p]) /\ FoundFor(ret.calls[p]) # {}
       THEN [ret.calls[p] EXCEPT !.pc = "remove",
                                 !.found = (CHOOSE e \in FoundFor(ret.calls[p]) : TRUE).id]
       ELSE [ret.calls[p] EXCEPT !.i = @ + 1])
  /\ UNCHANGED <<store, nextId, clock>>

\* step 1b, deleteListEntry(existing.id)
callDeleteFound(p) ==
  /\ Runs(p, "remove")
  /\ store' = DeleteById(store, ret.calls[p].found)
  /\ ret' = Stepped(p, [ret.calls[p] EXCEPT
       !.pc = "lookup", !.i = @ + 1,
       !.deleted = @ \cup {e.id : e \in {x \in store : x.id = ret.calls[p].found}}])
  /\ UNCHANGED <<nextId, clock>>

\* steps 2 and 3: the new entries are built and stored in one transaction
callInsert(p) ==
  LET c == ret.calls[p]
      r == BulkAdd(store, nextId, NewEntries(c.listName, c.entries, clock), clock)
  IN /\ Runs(p, "lookup")
     /\ c.i > Len(c.entries)
     /\ IF Len(NewEntries(c.listName, c.entries, clock)) > 0
        THEN /\ r.nextId <= MaxId + 1
             /\ store' = r.store
             /\ nextId' = r.nextId
             /\ ret' = Stepped(p, [c EXCEPT !.pc = "done",
                                            !.status = IF r.ok THEN "ok" ELSE "rejected"])
        ELSE /\ ret' = Stepped(p, [c EXCEPT !.pc = "done", !.status = "ok"])
             /\ UNCHANGED <<store, nextId>>
     /\ UNCHANGED clock

\* another caller's getListEntriesBySource(listName, 'backend') while calls
\* are in flight
readBackendEntries ==
  /\ ~Idle
  /\ Has(ret, "calls")
  /\ ret.op = "mergeBackendList"
  /\ ret' = [ret EXCEPT !.observed =
               [read |-> TRUE, keys |-> BackendKeysOf(store, ret.arg.listName),
                pcs |-> [p \in DOMAIN ret.calls |-> ret.calls[p].pc],
                statuses |-> [p \in DOMAIN ret.calls |-> ret.calls[p].status]]]
  /\ UNCHANGED <<store, nextId, clock>>

\* another caller's createListEntry(entry) while calls are in flight
createWhileInFlight(entry) ==
  LET r == Add(store, nextId, WithTimestamps(entry, clock))
  IN /\ ~Idle
     /\ Has(ret, "calls")
     /\ ret.status = "pending"
     /\ IF entry.pattern_type = "domain" /\ ~IsStrict(entry.domain)
        THEN UNCHANGED <<store, nextId>>
        ELSE /\ r.nextId <= MaxId + 1
             /\ store' = r.store
             /\ nextId' = r.nextId
     /\ UNCHANGED <<clock, ret>>

\* the error that ends the fetch of the configuration, Undefined when none
FetchFailure(response) ==
  IF ~response.fetched THEN response.message
  ELSE IF ~response.ok
  THEN "Failed to fetch configuration: " \o ToString(response.status) \o " "
         \o response.statusText
  ELSE IF ~response.json THEN response.message
  ELSE Undefined

\* the keys of the lists whose value is an array
KeysOfArrays(lists) ==
  LET arrays == SelectSeq(lists, LAMBDA l : l.isArray)
  IN [i \in DOMAIN arrays |-> arrays[i].listName]

\* Object.keys(config.lists)
ListKeys(lists) == [i \in DOMAIN lists |-> lists[i].listName]

\* a sync that applies the lists of the body whatever the response
syncListsIgnoringFailure(response) ==
  LET r == SyncLists(store, nextId, response.lists, clock)
  IN /\ Idle
     /\ IF Has(response, "lists")
        THEN /\ r.nextId <= MaxId + 1
             /\ store' = r.store
             /\ nextId' = r.nextId
        ELSE UNCHANGED <<store, nextId>>
     /\ ret' = Settled("syncListsFromConfig", response, "ok",
                       [success |-> FetchFailure(response) = Undefined,
                        listsUpdated |-> <<>>, errors |-> <<FetchFailure(response)>>])
     /\ UNCHANGED clock

syncListsFromConfig(response) ==
  LET r == SyncLists(store, nextId, response.lists, clock)
  IN /\ Idle
     /\ IF FetchFailure(response) # Undefined
        THEN /\ ret' = Settled("syncListsFromConfig", response, "ok",
                               [success |-> FALSE, listsUpdated |-> <<>>,
                                errors |-> <<FetchFailure(response)>>])
             /\ UNCHANGED <<store, nextId>>
        ELSE IF ~Has(response, "lists")
        THEN /\ ret' = Settled("syncListsFromConfig", response, "ok",
                               [success |-> TRUE, listsUpdated |-> <<>>])
             /\ UNCHANGED <<store, nextId>>
        ELSE /\ r.nextId <= MaxId + 1
             /\ store' = r.store
             /\ nextId' = r.nextId
             /\ ret' = Settled("syncListsFromConfig", response, "ok",
                               [success |-> TRUE, listsUpdated |-> ListKeys(response.lists)])
     /\ UNCHANGED clock

\* a call of matchesPattern
Match(url, pattern, patternType) ==
  /\ Idle
  /\ ret' = Settled("matchesPattern",
                    [url |-> url, pattern |-> pattern, patternType |-> patternType],
                    "ok", matchesPattern(url, pattern, patternType))
  /\ UNCHANGED <<store, nextId, clock>>

matchDomainAgainstList(url, listName) ==
  /\ Idle
  /\ ret' = Settled("matchDomainAgainstList", [url |-> url, listName |-> listName], "ok",
                    FirstMatch(url, getListEntries(store, listName)))
  /\ UNCHANGED <<store, nextId, clock>>

getAllLists ==
  /\ Idle
  /\ ret' = Settled("getAllLists", Undefined, "ok", Sort({e.list_name : e \in store}))
  /\ UNCHANGED <<store, nextId, clock>>

\* time passes between calls
Tick ==
  /\ Idle
  /\ clock < MaxClock
  /\ clock' = clock + 1
  /\ UNCHANGED <<store, nextId, ret>>

\* the caller takes the settled promise
Return ==
  /\ ~Idle
  /\ ret.status # "pending"
  /\ ret' = NoCall
  /\ UNCHANGED <<store, nextId, clock>>

\* ------------------------------------------------------------------------
\* Specification
\* ------------------------------------------------------------------------

Init ==
  /\ store = {}
  /\ nextId = 1
  /\ clock = 1
  /\ ret = NoCall

\* the store's operations, each awaited before the next
Next ==
  \/ \E entry \in EntryInputs : createListEntry(entry)
  \/ \E id \in 1..MaxId, updates \in UpdateInputs : updateListEntry(id, updates)
  \/ \E id \in 1..MaxId : deleteListEntry(id)
  \/ \E listName \in Lists, sourceFilter \in EntrySources \cup {Undefined} :
       deleteAllEntriesInList(listName, sourceFilter)
  \/ \E entries \in BulkInputs : bulkCreateListEntries(entries)
  \/ \E data \in ImportInputs : importList("L1", data)
  \/ Return

Spec == Init /\ [][Next]_vars

\* direct single-entry writes
NextDirect ==
  \/ \E entry \in DirectEntryInputs : createListEntry(entry)
  \/ \E id \in 1..MaxId, updates \in DirectUpdateInputs : updateListEntry(id, updates)
  \/ \E id \in 1..MaxId : deleteListEntry(id)
  \/ deleteListEntryAgain
  \/ Return

SpecDirect == Init /\ [][NextDirect]_vars

\* backend merges of a list that local entries were added to
NextMerge ==
  \/ \E entry \in MergeEntryInputs : createListEntry(entry)
  \/ \E entries \in MergeInputs : mergeBackendList("L1", entries)
  \/ mergeBackendListAgain
  \/ Return

SpecMerge == Init /\ [][NextMerge]_vars

\* backend merges of candidates with any pattern_type string
NextMergeTypes ==
  \/ \E entry \in MergeEntryInputs : createListEntry(entry)
  \/ \E entries \in TypeMergeInputs : mergeBackendList("L1", entries)
  \/ Return

SpecMergeTypes == Init /\ [][NextMergeTypes]_vars

\* syncs of configurations with several lists
NextSync ==
  \/ \E entry \in SyncEntryInputs : createListEntry(entry)
  \/ \E listsConfig \in ConfigInputs : parseAndSyncLists(listsConfig)
  \/ Return

SpecSync == Init /\ [][NextSync]_vars

\* reads of the list names between creates, deletes and merges
NextLists ==
  \/ \E entry \in NamedEntryInputs : createListEntry(entry)
  \/ \E id \in 1..MaxId : deleteListEntry(id)
  \/ \E listName \in ListNameInputs : deleteAllEntriesInList(listName, Undefined)
  \/ \E listName \in ListNameInputs, entries \in NamedMergeInputs :
       mergeBackendList(listName, entries)
  \/ getAllLists
  \/ Return

SpecLists == Init /\ [][NextLists]_vars

\* creates and updates with caller-supplied timestamps, as time passes
NextTime ==
  \/ \E entry \in TimedEntryInputs : createListEntry(entry)
  \/ \E id \in 1..MaxId, updates \in TimedUpdateInputs : updateListEntry(id, updates)
  \/ Tick
  \/ Return

SpecTime == Init /\ [][NextTime]_vars

\* every operation that stores or removes entries, and updates carrying an id
NextIds ==
  \/ \E entry \in EntryInputs : createListEntry(entry)
  \/ \E id \in 1..MaxId, updates \in IdUpdateInputs : updateListEntry(id, updates)
  \/ \E id \in 1..MaxId : deleteListEntry(id)
  \/ \E entries \in BulkInputs : bulkCreateListEntries(entries)
  \/ \E data \in ImportInputs : importList("L1", data)
  \/ \E entries \in NamedMergeInputs : mergeBackendList("L1", entries)
  \/ Return

SpecIds == Init /\ [][NextIds]_vars

\* exports and imports of lists that creates and merges have filled
NextImport ==
  \/ \E entry \in ExportEntryInputs : createListEntry(entry)
  \/ \E entries \in NamedMergeInputs : mergeBackendList("L1", entries)
  \/ \E data \in ImportInputs \cup NoArrayInputs : importList("L1", data)
  \/ \E listName \in Lists : exportList(listName)
  \/ importListExported
  \/ Return

SpecImport == Init /\ [][NextImport]_vars

\* syncs from a fetched configuration into lists that hold user entries
NextFetch ==
  \/ \E entry \in SyncEntryInputs : createListEntry(entry)
  \/ \E id \in 1..MaxId : deleteListEntry(id)
  \/ \E response \in FetchInputs : syncListsFromConfig(response)
  \/ Return

SpecFetch == Init /\ [][NextFetch]_vars

\* merges into a list that holds user entries, step by step, as time passes
NextMergeSteps ==
  \/ \E entry \in SyncEntryInputs : createListEntry(entry)
  \/ \E entries \in StepMergeInputs : mergeDeleteBackend("L1", entries)
  \/ mergeResolveConflicts
  \/ mergePrepareEntry
  \/ mergeInsert
  \/ TickInMerge
  \/ Return

SpecMergeSteps == Init /\ [][NextMergeSteps]_vars

\* calls of the matcher
NextMatch ==
  \/ \E url \in UrlInputs, pattern \in MatchPatternInputs, patternType \in MatchTypeInputs :
       Match(url, pattern, patternType)
  \/ Return

SpecMatch == Init /\ [][NextMatch]_vars

\* calls of the matcher with host_path_prefix patterns
NextMatchPath ==
  \/ \E url \in PathUrlInputs, pattern \in PathPatternInputs :
       Match(url, pattern, "host_path_prefix")
  \/ Return

SpecMatchPath == Init /\ [][NextMatchPath]_vars

\* urls matched against lists that creates and deletes have filled
NextMatchList ==
  \/ \E entry \in EntryInputs : createListEntry(entry)
  \/ \E id \in 1..MaxId : deleteListEntry(id)
  \/ \E url \in ListUrlInputs, listName \in Lists : matchDomainAgainstList(url, listName)
  \/ Return

SpecMatchList == Init /\ [][NextMatchList]_vars

\* two mergeBackendList calls for one list with one batch, their store
\* operations interleaved
NextConcurrentMerges ==
  \/ \E entries \in ConcurrentMergeInputs : startMerges("L1", entries, 2)
  \/ \E p \in 1..2 : callDeleteBackend(p)
  \/ \E p \in 1..2 : callLookup(p)
  \/ \E p \in 1..2 : callDeleteFound(p)
  \/ \E p \in 1..2 : callInsert(p)
  \/ Return

SpecConcurrentMerges == Init /\ [][NextConcurrentMerges]_vars

\* one mergeBackendList call, one store operation at a time, while another
\* caller reads the list's backend entries and creates entries
NextMergeInterleaved ==
  \/ \E entry \in SyncEntryInputs : createListEntry(entry)
  \/ \E entries \in InterleavedMergeInputs : startMerges("L1", entries, 1)
  \/ callDeleteBackend(1)
  \/ callLookup(1)
  \/ callDeleteFound(1)
  \/ callInsert(1)
  \/ readBackendEntries
  \/ \E entry \in SyncEntryInputs : createWhileInFlight(entry)
  \/ Return

SpecMergeInterleaved == Init /\ [][NextMergeInterleaved]_vars

\* parseAndSyncLists with the merges of its lists one store operation at a time
NextSyncSteps ==
  \/ \E entry \in SyncEntryInputs : createListEntry(entry)
  \/ \E listsConfig \in StepConfigInputs : startSync(listsConfig)
  \/ \E p \in 1..2 : callDeleteBackend(p)
  \/ \E p \in 1..2 : callLookup(p)
  \/ \E p \in 1..2 : callDeleteFound(p)
  \/ \E p \in 1..2 : callInsert(p)
  \/ Return

SpecSyncSteps == Init /\ [][NextSyncSteps]_vars

\* updates of single fields and of metadata keys of the first entry created,
\* beside a second entry, as time passes
NextUpdate ==
  \/ \E entry \in FieldEntryInputs : createListEntry(entry)
  \/ \E updates \in FieldUpdateInputs : updateListEntry(1, updates)
  \/ Tick
  \/ Return

SpecUpdate == Init /\ [][NextUpdate]_vars

\* syncs from fetched configurations with several lists
NextFetchLists ==
  \/ \E entry \in SyncEntryInputs : createListEntry(entry)
  \/ \E response \in ListsResponseInputs : syncListsFromConfig(response)
  \/ Return

SpecFetchLists == Init /\ [][NextFetchLists]_vars

\* ------------------------------------------------------------------------
\* Properties
\* ------------------------------------------------------------------------

\* the key of a stored entry within its list
Key(e) == <<e.pattern_type, e.domain>>

\* the key a candidate of a backend batch names
CandidateKey(c) == <<Get(c, "pattern_type"), Get(c, "domain")>>

CandidateKeys(batch) == {CandidateKey(batch[i]) : i \in DOMAIN batch}

\* the pattern is its own registrable domain, a leading www. label set aside
IsOwnRegistrableDomain(p) ==
  LET n == normalizeLeadingWww(Trim(p))
  IN ~Includes(n, "/") /\ PslParse(n).domain = n

\* the pattern has a registrable domain and is a proper subdomain of it
IsSubdomain(p) ==
  LET d == PslParse(p).domain
  IN d # Null /\ p # d /\ EndsWith(p, "." \o d)

\* a candidate that the merge must not skip: a non-empty pattern, a pattern
\* type, and for type domain a pattern that is its own registrable domain
ValidCandidate(c) ==
  /\ Has(c, "domain") /\ c.domain # ""
  /\ Has(c, "pattern_type")
  /\ c.pattern_type = "domain" => IsOwnRegistrableDomain(c.domain)

ValidKeys(batch) == {CandidateKey(batch[i]) : i \in {j \in DOMAIN batch : ValidCandidate(batch[j])}}

BackendKeys(s, L) == {Key(e) : e \in {x \in s : x.list_name = L /\ x.source = "backend"}}

\* what an observer sees of the store, ids and timestamps left out
View(s) == {<<e.list_name, e.pattern_type, e.domain, e.source>> : e \in s}

\* C1: no two distinct stored entries share (list_name, pattern_type, domain).
\* The unique index enforces it only for records that have all three
\* properties; importList stores what the file holds, so two entries of a file
\* that lack pattern_type are both stored under one triple.
C1_Uniqueness ==
  \A e1, e2 \in store :
    e1.id # e2.id =>
      <<e1.list_name, e1.pattern_type, e1.domain>> # <<e2.list_name, e2.pattern_type, e2.domain>>

\* C2: a merge of list L leaves every user and generated entry of L whose key
\* no candidate of the batch names in the store as it was (same id, same
\* fields), and a merge with an empty batch removes exactly L's backend entries.
C2_SourcePreservation ==
  [][ret'.op = "mergeBackendList" =>
        LET L     == ret'.arg.listName
            batch == ret'.arg.entries
        IN /\ \A e \in store :
                (e.list_name = L /\ e.source \in {"user", "generated"}
                   /\ Key(e) \notin CandidateKeys(batch)) => e \in store'
           /\ Len(batch) = 0 =>
                store' = {e \in store : ~(e.list_name = L /\ e.source = "backend")}]_vars

\* a merge with candidates has settled; the list holds a backend entry and a
\* user entry at a key that no candidate names
C2_Witness ==
  /\ ret.op = "mergeBackendList"
  /\ Len(ret.arg.entries) > 0
  /\ \E b \in store : b.source = "backend"
  /\ \E e \in store : e.source = "user" /\ Key(e) \notin CandidateKeys(ret.arg.entries)

\* C3: when L holds a user or generated entry at key K and the batch has a
\* candidate at K, then after the merge exactly one entry is at (L, K) and it
\* is a backend entry.  A batch that names K twice makes the bulk insert fail
\* after the local entry was removed, and nothing is left at K.
C3_ConflictResolution ==
  [][ret'.op = "mergeBackendList" =>
        LET L     == ret'.arg.listName
            batch == ret'.arg.entries
        IN \A e \in store :
             (e.list_name = L /\ e.source \in {"user", "generated"}
                /\ Key(e) \in CandidateKeys(batch)) =>
               LET at == {o \in store' : o.list_name = L /\ Key(o) = Key(e)}
               IN Cardinality(at) = 1 /\ \A o \in at : o.source = "backend"]_vars

\* C4: when a merge of L returns without error, the keys of L's backend
\* entries are exactly the keys of the valid candidates of the batch.
C4_BackendAuthoritative ==
  [][(ret'.op = "mergeBackendList" /\ ret'.status = "ok") =>
        BackendKeys(store', ret'.arg.listName) = ValidKeys(ret'.arg.entries)]_vars

\* a merge of a batch with a valid and an invalid candidate has returned
\* without error and the list holds backend entries
C4_Witness ==
  /\ ret.op = "mergeBackendList"
  /\ ret.status = "ok"
  /\ \E i \in DOMAIN ret.arg.entries : ValidCandidate(ret.arg.entries[i])
  /\ \E i \in DOMAIN ret.arg.entries : ~ValidCandidate(ret.arg.entries[i])
  /\ BackendKeys(store, ret.arg.listName) # {}

\* C5: the same merge made a second time leaves the store with the same
\* entries (list_name, pattern_type, domain, source) as the first left it.
C5_MergeIdempotent ==
  [][(ret'.op = "mergeBackendList" /\ ret'.again) => View(store') = View(store)]_vars

\* a merge that stored backend entries beside a local entry was repeated
C5_Witness ==
  /\ ret.op = "mergeBackendList"
  /\ ret.again
  /\ ret.status = "ok"
  /\ \E b \in store : b.source = "backend"
  /\ \E e \in store : e.source # "backend"

\* C6: every stored entry with pattern_type domain has a pattern that is its
\* own registrable domain.  bulkCreateListEntries and importList store their
\* entries without the check that createListEntry makes.
C6_DomainStrictness ==
  \A e \in store : e.pattern_type = "domain" => IsOwnRegistrableDomain(e.domain)

\* the entry an updateListEntry call would store: the stored entry with the
\* call's updates over it
EffectiveEntry(s, a) == Spread(CHOOSE e \in s : e.id = a.id, a.updates)

\* a step of a direct write validates its pattern: a domain pattern that is
\* Bad fails with a validation error and the store stays as it was, on create
\* and on update of an existing entry; a bare registrable domain passes
DirectWritesValidated(Bad(_)) ==
  /\ (ret'.op = "createListEntry" /\ ret'.arg.pattern_type = "domain") =>
       /\ Bad(ret'.arg.domain) => (ret'.status = "invalid_pattern" /\ store' = store)
       /\ PslParse(ret'.arg.domain).domain = ret'.arg.domain => ret'.status # "invalid_pattern"
  /\ (ret'.op = "updateListEntry" /\ \E e \in store : e.id = ret'.arg.id) =>
       LET eff == EffectiveEntry(store, ret'.arg)
       IN eff.pattern_type = "domain" =>
            /\ Bad(eff.domain) => (ret'.status = "invalid_pattern" /\ store' = store)
            /\ PslParse(eff.domain).domain = eff.domain => ret'.status # "invalid_pattern"

\* the pattern is still a proper subdomain once trimmed, lower-cased and
\* relieved of one leading www. label
IsSubdomainBeyondWww(p) == IsSubdomain(normalizeLeadingWww(Trim(p)))

C8_BulkAllOrNothing ==
  [][ret'.op = "bulkCreateListEntries" =>
        LET batch == ret'.arg
            added == store' \ store
        IN \/ /\ ret'.status = "ok"
              /\ store \subseteq store'
              /\ Cardinality(added) = Len(batch)
              /\ \A i \in DOMAIN batch :
                   \E e \in added :
                     /\ e.id = ret'.value[i]
                     /\ e.list_name = batch[i].list_name
                     /\ Key(e) = Key(batch[i])
                     /\ e.source = batch[i].source
           \/ /\ ret'.status # "ok"
              /\ store' = store]_vars

\* a batch of two was rejected on its second entry, whose key the store
\* holds, after the add of its first entry, whose key the store does not hold
C8_Witness ==
  /\ ret.op = "bulkCreateListEntries"
  /\ ret.status = "constraint_error"
  /\ Len(ret.arg) = 2
  /\ \E e \in store : e.list_name = ret.arg[2].list_name /\ Key(e) = Key(ret.arg[2])
  /\ ~\E e \in store : e.list_name = ret.arg[1].list_name /\ Key(e) = Key(ret.arg[1])

\* C9: a merge of a batch that mixes valid and invalid candidates stores every
\* valid candidate as a backend entry and none of the invalid ones.  When two
\* valid candidates of the batch share a key the bulk insert is rejected as a
\* whole and no valid candidate is stored.
C9_InvalidCandidatesDoNotAbort ==
  [][(/\ ret'.op = "mergeBackendList"
      /\ \E i \in DOMAIN ret'.arg.entries : ValidCandidate(ret'.arg.entries[i])
      /\ \E i \in DOMAIN ret'.arg.entries : ~ValidCandidate(ret'.arg.entries[i])) =>
        BackendKeys(store', ret'.arg.listName) = ValidKeys(ret'.arg.entries)]_vars

\* the candidates of a batch that the merge skips
Skipped(batch) == {i \in DOMAIN batch : ~ValidCandidate(batch[i])}

\* C10: the outcome of a merge that skipped candidates reports them, so it
\* differs from the outcome of a merge that skipped none, which resolves with
\* undefined.  mergeBackendList resolves with undefined in both cases.
C10_SkippedSurfaced ==
  (ret.op = "mergeBackendList" /\ Skipped(ret.arg.entries) # {}) =>
    <<ret.status, ret.value>> # <<"ok", Undefined>>

\* C11: every backend entry that a merge stores has a pattern_type of
\* PatternType.  mergeBackendList tests only that pattern_type is truthy, so
\* a candidate with any other non-empty string is stored.
C11_RecognizedTypesOnly ==
  \A e \in store : e.source = "backend" => e.pattern_type \in PatternTypes

\* the positions of a batch whose key no other position of the batch names
UniqueInBatch(batch) ==
  {i \in DOMAIN batch : \A j \in DOMAIN batch : j # i => CandidateKey(batch[j]) # CandidateKey(batch[i])}

\* C12: a uniqueness violation during the insert of a merge is fatal for the
\* one candidate only: in a batch where two candidates share a key, every
\* other valid candidate is stored as a backend entry.  The insert is one
\* transaction, which the violation aborts as a whole.
C12_ViolationFatalForOneCandidate ==
  [][ret'.op = "mergeBackendList" =>
        \A i \in UniqueInBatch(ret'.arg.entries) :
          ValidCandidate(ret'.arg.entries[i]) =>
            CandidateKey(ret'.arg.entries[i]) \in BackendKeys(store', ret'.arg.listName)]_vars

\* a stored entry without its id
WithoutId(e) == [k \in DOMAIN e \ {"id"} |-> e[k]]

\* the entries of list L, ids left out
EntriesOf(s, L) == {WithoutId(e) : e \in {x \in s : x.list_name = L}}

\* the lists of a configuration whose value is an array
ArrayLists(config) == {config[i].listName : i \in {j \in DOMAIN config : config[j].isArray}}

\* C13: parseAndSyncLists resolves whatever the merges of its lists do; each
\* list of the configuration ends up with the entries that a merge of that list
\* alone, from the store before the call, would leave it with, also when the
\* merge of another list of the configuration was rejected; the entries of
\* lists that are not merged stay as they were.
C13_ListFailureIsolated ==
  [][ret'.op = "parseAndSyncLists" =>
        LET config == ret'.arg
        IN /\ ret'.status = "ok"
           /\ \A i \in DOMAIN config :
                config[i].isArray =>
                  EntriesOf(store', config[i].listName)
                    = EntriesOf(MergeStore(store, nextId, config[i].listName,
                                           config[i].entries, clock).store,
                                config[i].listName)
           /\ {e \in store' : e.list_name \notin ArrayLists(config)}
                = {e \in store : e.list_name \notin ArrayLists(config)}]_vars

\* a configuration of two lists was synced: the first list's batch names one
\* key twice, so its insert was rejected and it has no backend entry; the
\* second list has its backend entries
C13_Witness ==
  /\ ret.op = "parseAndSyncLists"
  /\ Len(ret.arg) = 2
  /\ ret.arg[1].isArray /\ Len(ret.arg[1].entries) = 2
  /\ ret.arg[1].entries[1] = ret.arg[1].entries[2]
  /\ ret.arg[2].isArray /\ Len(ret.arg[2].entries) > 0
  /\ BackendKeys(store, ret.arg[1].listName) = {}
  /\ BackendKeys(store, ret.arg[2].listName) # {}

\* the stored entries other than e that hold the key e would have
HoldersOfKey(s, e) ==
  {o \in s : o.id # e.id /\ <<o.list_name, o.pattern_type, o.domain>>
                              = <<e.list_name, e.pattern_type, e.domain>>}

\* C14: an update that would give its entry the (list_name, pattern_type,
\* domain) of a different stored entry fails with a write error, and the store,
\* both entries included, stays as it was.  The write error comes from the
\* unique index, which holds no record without pattern_type: beside such an
\* entry, stored by importList, the update resolves.
C14_UpdateCannotDuplicate ==
  [][(/\ ret'.op = "updateListEntry"
      /\ \E e \in store : e.id = ret'.arg.id
      /\ HoldersOfKey(store, Spread(EffectiveEntry(store, ret'.arg),
                                    [k \in {"id"} |-> ret'.arg.id])) # {}) =>
        (ret'.status = "constraint_error" /\ store' = store)]_vars

\* an update was refused by the unique index; the store holds the entry and
\* the other entry, whose key the update asked for
C14_Witness ==
  /\ ret.op = "updateListEntry"
  /\ ret.status = "constraint_error"
  /\ \E e \in store : e.id = ret.arg.id
  /\ HoldersOfKey(store, Spread(EffectiveEntry(store, ret.arg),
                                [k \in {"id"} |-> ret.arg.id])) # {}

\* C15: an update of an id that no stored entry has fails with a not-found
\* error and leaves the store unchanged.
C15_UpdateNotFound ==
  [][(ret'.op = "updateListEntry" /\ ~\E e \in store : e.id = ret'.arg.id) =>
        (ret'.status = "not_found" /\ store' = store)]_vars

\* an update of an id that was handed out and deleted since, in a store that
\* holds other entries, has failed as not found
C15_Witness ==
  /\ ret.op = "updateListEntry"
  /\ ret.status = "not_found"
  /\ ret.arg.id < nextId
  /\ store # {}

\* C16: deleteListEntry resolves and removes the entry with the id and no
\* other, which leaves the store unchanged when no entry has the id; the same
\* delete made a second time leaves the store as the first left it.
C16_DeleteIdempotent ==
  [][ret'.op = "deleteListEntry" =>
        /\ ret'.status = "ok"
        /\ store' = {e \in store : e.id # ret'.arg}
        /\ ret'.again => store' = store]_vars

\* the delete of an id that was handed out was repeated, in a store that holds
\* other entries
C16_Witness ==
  /\ ret.op = "deleteListEntry"
  /\ ret.again
  /\ ret.arg < nextId
  /\ store # {}

\* C17: deleteAllEntriesInList removes the entries of the list, or with a
\* source filter the entries of the list with that source, and leaves every
\* other entry as it was.
C17_DeleteAllFrame ==
  [][ret'.op = "deleteAllEntriesInList" =>
        store' = {e \in store :
                    ~(/\ e.list_name = ret'.arg.listName
                      /\ (ret'.arg.sourceFilter = Undefined
                            \/ e.source = ret'.arg.sourceFilter))}]_vars

\* the user entries of L1 were deleted; a generated entry of L1 and an entry
\* of L2 are still stored
C17_Witness ==
  /\ ret.op = "deleteAllEntriesInList"
  /\ ret.arg.listName = "L1" /\ ret.arg.sourceFilter = "user"
  /\ nextId = MaxId + 1
  /\ \E e \in store : e.list_name = "L1" /\ e.source = "generated"
  /\ \E e \in store : e.list_name = "L2"
  /\ Cardinality(store) = 2

\* the list names of the model from the lowest to the highest: upper case
\* before lower case, "a1" before "b"
NamesInOrder == <<"B", "a1", "b">>

\* the elements of seq that are in S, in the order of seq
RECURSIVE Restrict(_, _)
Restrict(seq, S) ==
  IF Len(seq) = 0 THEN <<>>
  ELSE (IF Head(seq) \in S THEN <<Head(seq)>> ELSE <<>>) \o Restrict(Tail(seq), S)

\* C18: getAllLists resolves with the list names that at least one stored
\* entry has, each once, in sorted order; so a name is there from the create
\* of the list's first entry to the delete of its last.
C18_ListNamesExact ==
  ret.op = "getAllLists" =>
    ret.value = Restrict(NamesInOrder, {e.list_name : e \in store})

\* the names were read while two lists had entries and the third, whose
\* entries were deleted, had none
C18_Witness ==
  /\ ret.op = "getAllLists"
  /\ ret.value = <<"B", "b">>
  /\ nextId = MaxId + 1

\* C19: every stored entry has updated_at >= created_at.  A created_at that
\* the caller supplies is stored as given, also when it is later than the
\* clock that updated_at is set from.
C19_TimestampMonotonic ==
  \A e \in store : e.metadata.updated_at >= e.metadata.created_at

\* the stored entry with the id
EntryWithId(s, id) == CHOOSE e \in s : e.id = id

\* C20: createListEntry stores a created_at that the caller supplies; no
\* updateListEntry changes the created_at of its entry; the updated_at that a
\* create or an update stores is the clock's, whatever the caller supplied.
\* updateListEntry spreads the caller's metadata over the entry's, created_at
\* included.
C20_CreatedAtFixed ==
  [][/\ (ret'.op = "createListEntry" /\ ret'.status = "ok") =>
          LET meta   == ret'.arg.metadata
              stored == EntryWithId(store', ret'.value).metadata
          IN /\ (Has(meta, "created_at") /\ meta.created_at # 0) =>
                  stored.created_at = meta.created_at
             /\ stored.updated_at = clock
     /\ (ret'.op = "updateListEntry" /\ ret'.status = "ok") =>
          /\ EntryWithId(store', ret'.arg.id).metadata.created_at
               = EntryWithId(store, ret'.arg.id).metadata.created_at
          /\ EntryWithId(store', ret'.arg.id).metadata.updated_at = clock]_vars

\* the ids of the stored entries
Ids(s) == {e.id : e \in s}

\* C21: ids are the store's, never change and are never reused.  An update
\* that resolves leaves the stored ids as they were, whatever id its updates
\* carry; every id that a step adds to the store is at least the key
\* generator's number, which never decreases and is above every stored id, so
\* the id of a deleted entry is never handed out again.
C21_IdsStable ==
  [][/\ (ret'.op = "updateListEntry" /\ ret'.status = "ok") =>
          /\ Ids(store') = Ids(store)
          /\ ret'.arg.id \in Ids(store')
     /\ \A e \in store' : e.id \notin Ids(store) => e.id >= nextId
     /\ nextId' >= nextId
     /\ \A e \in store' : e.id < nextId']_vars

\* an update carrying another id has resolved in a store that an entry was
\* deleted from
C21_Witness ==
  /\ ret.op = "updateListEntry"
  /\ ret.status = "ok"
  /\ Has(ret.arg.updates, "id")
  /\ ret.arg.updates.id # ret.arg.id
  /\ \E i \in 1..(nextId - 1) : i \notin Ids(store)

\* metadata without the timestamps of the store
WithoutStamps(m) == [k \in DOMAIN m \ {"created_at", "updated_at"} |-> m[k]]

\* (domain, pattern_type, metadata) of a stored entry
Triple(e) == <<e.domain, e.pattern_type, WithoutStamps(e.metadata)>>

\* (domain, pattern_type, metadata) of an element of an imported array
FileTriple(x) ==
  <<Get(x, "domain"), Get(x, "pattern_type"),
    WithoutStamps(IF Has(x, "metadata") THEN x.metadata ELSE EmptyObject)>>

Triples(s, L) == {Triple(e) : e \in {x \in s : x.list_name = L}}

\* the statement of the import that has settled: it was given a text that
\* parses and holds an entries array
HasEntriesArray(data) ==
  data.parsed /\ Has(data, "entries") /\ ~(Has(data, "isArray") /\ ~data.isArray)

\* C22: importList(L, json) replaces the list.  After an import that resolves,
\* L holds one entry per element of the imported array, with the array's
\* (domain, pattern_type, metadata) and ids that no earlier entry had; the
\* number returned is the array's length; the entries of the other lists are
\* the ones before.
C22_ImportReplaces ==
  [][(ret'.op = "importList" /\ ret'.status = "ok") =>
       LET L     == ret'.arg.listName
           arr   == ret'.arg.data.entries
           after == {e \in store' : e.list_name = L}
       IN /\ Cardinality(after) = Len(arr)
          /\ ret'.value = Len(arr)
          /\ {Triple(e) : e \in after} = {FileTriple(arr[i]) : i \in DOMAIN arr}
          /\ \A e \in after : e.id >= nextId
          /\ {e \in store' : e.list_name # L} = {e \in store : e.list_name # L}]_vars

\* an import of a non-empty array has resolved, ids were in use before it and
\* the other list holds an entry
C22_Witness ==
  /\ ret.op = "importList"
  /\ ret.status = "ok"
  /\ ~ret.again
  /\ ret.value >= 1
  /\ nextId > ret.value + 1
  /\ \E e \in store : e.list_name # ret.arg.listName

\* C23: every entry that importList stores has a source of EntrySources.
\* importList takes no source and its entries.map(...) sets none, so the
\* entries are stored without one.
C23_ImportedSourceChosen ==
  [][(ret'.op = "importList" /\ ret'.status = "ok") =>
       \A e \in store' : e.list_name = ret'.arg.listName => e.source \in EntrySources]_vars

\* C24: importList(L, exportList(L)) leaves L with the (domain, pattern_type,
\* metadata) triples it had, timestamps aside.  JSON.stringify leaves out a
\* metadata member whose value is undefined, so the imported entry has lost it.
C24_RoundTrip ==
  [][(ret.op = "exportList" /\ ret'.op = "importList" /\ ret'.again) =>
       Triples(store', ret.arg) = Triples(store, ret.arg)]_vars

\* C25: an import of a text that does not parse, or that has no entries
\* array, is rejected and leaves the store as it was.
C25_BadImportRejected ==
  [][(ret'.op = "importList" /\ ~HasEntriesArray(ret'.arg.data)) =>
       /\ ret'.status = "error"
       /\ store' = store
       /\ nextId' = nextId]_vars

\* such an import has been rejected while the list holds an entry
C25_Witness ==
  /\ ret.op = "importList"
  /\ ret.status = "error"
  /\ ~HasEntriesArray(ret.arg.data)
  /\ \E e \in store : e.list_name = ret.arg.listName

\* C26: syncListsFromConfig never rejects; when the fetch of the configuration
\* fails (network error, response that is not OK, body that is not JSON) it
\* returns success = false with the error's message in errors, and the store
\* is as it was.
C26_FetchFailureReported ==
  [][ret'.op = "syncListsFromConfig" =>
       /\ ret'.status = "ok"
       /\ FetchFailure(ret'.arg) # Undefined =>
            /\ ~ret'.value.success
            /\ ret'.value.errors = <<FetchFailure(ret'.arg)>>
            /\ store' = store
            /\ nextId' = nextId]_vars

\* a response that is not OK, with lists in its body that differ from the
\* store's, has been reported as a failure
C26_Witness ==
  /\ ret.op = "syncListsFromConfig"
  /\ ret.arg.fetched
  /\ ~ret.arg.ok
  /\ ~ret.value.success
  /\ store # {}
  /\ \E i \in DOMAIN ret.arg.lists :
       ret.arg.lists[i].isArray /\ Len(ret.arg.lists[i].entries) > 0

\* C27: the backend entries that one mergeBackendList call inserts all carry
\* the sync_timestamp that the clock showed when the call was made.  The code
\* reads Date.now() for each candidate in step 2, after the backend delete and
\* the conflict resolution.
C27_SyncTimestampAtStart ==
  [][(~Idle /\ ret.status = "pending" /\ ret'.status = "ok") =>
       \A e \in store' :
         (e.list_name = ret.arg.listName /\ e.source = "backend") =>
           e.metadata.sync_timestamp = ret.started]_vars

\* the call of the matcher that has settled
MatchOf(patternType) == ret.op = "matchesPattern" /\ ret.arg.patternType = patternType

UrlOk(url) == ParseURL(url).ok

HostnameOf(url) == ParseURL(url).hostname

\* C28: matchesPattern is total: every call returns a boolean, and false for
\* a url that is no absolute URL (also for exact_url with the pattern equal to
\* the url), for a regex pattern that does not compile, for a pattern in URL
\* form that does not parse, and for a pattern type that is none of
\* PatternTypes.
C28_MatcherTotal ==
  ret.op = "matchesPattern" =>
    /\ ret.status = "ok"
    /\ ret.value \in BOOLEAN
    /\ ~UrlOk(ret.arg.url) => ~ret.value
    /\ (ret.arg.patternType = "regex" /\ RegExpFails(ret.arg.pattern)) => ~ret.value
    /\ (/\ ret.arg.patternType \in {"domain", "host", "host_path_prefix"}
        /\ Includes(ret.arg.pattern, "://")
        /\ ~UrlOk(ret.arg.pattern)) => ~ret.value
    /\ ret.arg.patternType \notin PatternTypes => ~ret.value

\* an exact_url pattern has been compared with the same string, which is no
\* absolute URL
C28_Witness ==
  /\ MatchOf("exact_url")
  /\ ret.arg.url = ret.arg.pattern
  /\ ret.arg.url # ""
  /\ ~UrlOk(ret.arg.url)
  /\ ~ret.value

\* the registrable domain of a hostname, Null when it has none
RegistrableDomainOf(hostname) ==
  IF PslParse(hostname).error THEN Null ELSE PslParse(hostname).domain

\* C29: a domain pattern matches exactly when it passes the strict
\* registered-domain check and the registrable domain of the url's hostname is
\* the pattern, trimmed, lower-cased and without one leading www.; so a valid
\* pattern matches its domain and every host under it and no other, and a
\* pattern that fails the check matches nothing.
C29_DomainMatching ==
  MatchOf("domain") =>
    LET p == normalizeLeadingWww(Trim(ret.arg.pattern))
        h == HostnameOf(ret.arg.url)
    IN /\ ret.value = (/\ UrlOk(ret.arg.url)
                       /\ isStrictRegisteredDomain(ret.arg.pattern)
                       /\ RegistrableDomainOf(h) = p)
       /\ (UrlOk(ret.arg.url) /\ isStrictRegisteredDomain(ret.arg.pattern)) =>
            ret.value = (h = p \/ EndsWith(h, "." \o p))
       /\ ~isStrictRegisteredDomain(ret.arg.pattern) => ~ret.value

\* a domain pattern has matched a subdomain that is not its www host
C29_Witness ==
  /\ MatchOf("domain")
  /\ ret.value
  /\ HostnameOf(ret.arg.url) = "m." \o normalizeLeadingWww(Trim(ret.arg.pattern))

\* the host part of a pattern: the hostname of a full URL, else the part
\* before the first "/", the whole pattern when it has none
HostPart(pattern) ==
  IF Includes(pattern, "://") THEN HostnameOf(pattern)
  ELSE SubSeq(pattern, 1, FirstOf(pattern, {"/"}) - 1)

\* C30: a host pattern matches exactly when the url's hostname and the host
\* part of the pattern are equal after lower-casing and stripping one leading
\* www., and the pattern's host so normalised is not empty; a host pattern
\* does not match another subdomain of its registrable domain.
C30_HostMatching ==
  MatchOf("host") =>
    /\ ret.value =
         (/\ UrlOk(ret.arg.url)
          /\ Includes(ret.arg.pattern, "://") => UrlOk(ret.arg.pattern)
          /\ normalizeLeadingWww(HostPart(ret.arg.pattern)) # ""
          /\ normalizeLeadingWww(HostnameOf(ret.arg.url))
               = normalizeLeadingWww(HostPart(ret.arg.pattern)))
    /\ (HostnameOf(ret.arg.url) = "m.a.com" /\ ret.arg.pattern = "a.com") => ~ret.value

\* a host pattern given as host and path has matched the www host of its host
C30_Witness ==
  /\ MatchOf("host")
  /\ ret.value
  /\ Includes(ret.arg.pattern, "/")
  /\ HostnameOf(ret.arg.url) = "www." \o HostPart(ret.arg.pattern)

\* the path part of a pattern: the pathname of a full URL, else the pattern
\* from its first "/" on
PathPart(pattern) ==
  IF Includes(pattern, "://") THEN ParseURL(pattern).pathname
  ELSE SubSeq(pattern, FirstOf(pattern, {"/"}), Len(pattern))

\* a url without its query and fragment
WithoutQueryAndFragment(url) == SubSeq(url, 1, FirstOf(url, {"?", "#"}) - 1)

\* the path of a url: what follows the host up to the query or fragment, "/"
\* when nothing does
PathOf(url) == ParseURL(url).pathname

\* C31: a host_path_prefix pattern matches exactly when the hosts are equal
\* after lower-casing and stripping one leading www. and the url's path starts
\* with the pattern's path, or the pattern's path ends with "/" and the url's
\* path is the pattern's path without that "/"; a pattern without "/" and
\* without scheme matches nothing; the url's query and fragment do not count.
C31_HostPathPrefixMatching ==
  MatchOf("host_path_prefix") =>
    LET url == ret.arg.url
        p   == ret.arg.pattern
    IN /\ ret.value =
            (/\ UrlOk(url)
             /\ Includes(p, "://") => UrlOk(p)
             /\ Includes(p, "/")
             /\ normalizeLeadingWww(HostPart(p)) # ""
             /\ normalizeLeadingWww(HostnameOf(url)) = normalizeLeadingWww(HostPart(p))
             /\ \/ StartsWith(PathOf(url), PathPart(p))
                \/ /\ EndsWith(PathPart(p), "/")
                   /\ PathOf(url) \o "/" = PathPart(p))
       /\ ~Includes(p, "/") => ~ret.value
       /\ ret.value = matchesPattern(WithoutQueryAndFragment(url), p, "host_path_prefix")
       /\ (p = "a.com/ma" /\ url = "https://a.com/ma/d") => ret.value
       /\ (p = "a.com/ma" /\ url = "https://a.com/m") => ~ret.value

\* a pattern whose path ends with "/" has matched a url with a query whose
\* path is the pattern's without that "/"
C31_Witness ==
  /\ MatchOf("host_path_prefix")
  /\ ret.value
  /\ EndsWith(PathPart(ret.arg.pattern), "/")
  /\ PathOf(ret.arg.url) \o "/" = PathPart(ret.arg.pattern)
  /\ Includes(ret.arg.url, "?")

\* the entries of list L that match the url
MatchingEntries(s, url, L) == {e \in s : e.list_name = L /\ EntryMatches(url, e)}

\* C32: matchDomainAgainstList(url, L) returns null exactly when no entry of L
\* matches the url, and otherwise an entry of L that matches it.
C32_ListMatch ==
  ret.op = "matchDomainAgainstList" =>
    /\ ret.value.isNull <=> MatchingEntries(store, ret.arg.url, ret.arg.listName) = {}
    /\ ~ret.value.isNull =>
         ret.value.entry \in MatchingEntries(store, ret.arg.url, ret.arg.listName)

\* an entry of the list has been returned while an older entry of another
\* list matches the url as well
C32_Witness ==
  /\ ret.op = "matchDomainAgainstList"
  /\ ~ret.value.isNull
  /\ \E o \in store :
       /\ o.list_name # ret.arg.listName
       /\ o.id < ret.value.entry.id
       /\ EntryMatches(ret.arg.url, o)
\* both concurrent merges of the batch have finished
BothFinished ==
  /\ Has(ret, "calls")
  /\ ret.op = "mergeBackendList"
  /\ Len(ret.calls) = 2
  /\ \A p \in 1..2 : ret.calls[p].pc = "done"

\* C36: once two concurrent merges of one list with one duplicate-free, valid
\* batch have both finished, the list's backend entries are exactly the keys
\* of the batch.
C36_ConcurrentMergesConverge ==
  (BothFinished /\ UniqueInBatch(ret.arg.entries) = DOMAIN ret.arg.entries
     /\ \A i \in DOMAIN ret.arg.entries : ValidCandidate(ret.arg.entries[i]))
    => BackendKeys(store, ret.arg.listName) = CandidateKeys(ret.arg.entries)
\* the one merge in flight, or just finished
TheMerge ==
  Has(ret, "calls") /\ ret.op = "mergeBackendList" /\ Len(ret.calls) = 1

\* C33: a merge is not atomic across its steps.  What another caller reads as
\* the backend entries of L is the previous backend set before the backend
\* delete, nothing between the backend delete and the bulk insert, and after
\* the bulk insert the whole batch or, when the insert was rejected, nothing:
\* never a part of the batch.
C33_MergeNotAtomic ==
  (TheMerge /\ ret.observed.read) =>
     ret.observed.keys =
       IF ret.observed.pcs[1] = "start" THEN ret.previous
       ELSE IF ret.observed.pcs[1] = "done" /\ ret.observed.statuses[1] = "ok"
            THEN ValidKeys(ret.arg.entries)
       ELSE {}

\* with a previous backend set and a valid batch, a read between the backend
\* delete and the bulk insert has seen no backend entry
C33_Witness ==
  /\ TheMerge
  /\ ret.previous # {}
  /\ ValidKeys(ret.arg.entries) # {}
  /\ ret.observed.read
  /\ ret.observed.pcs[1] \in {"lookup", "remove"}
  /\ ret.observed.keys = {}
\* the step is the bulk insert of the one merge in flight, and it is rejected
InsertRejected ==
  /\ TheMerge
  /\ ret.calls[1].pc = "lookup"
  /\ ret.calls[1].i > Len(ret.calls[1].entries)
  /\ Has(ret', "calls")
  /\ ret'.calls[1].pc = "done"
  /\ Len(NewEntries(ret.arg.listName, ret.arg.entries, clock)) > 0
  /\ ~BulkAdd(store, nextId, NewEntries(ret.arg.listName, ret.arg.entries, clock), clock).ok

MergeStep ==
  /\ TheMerge
  /\ Has(ret', "calls")
  /\ ret'.calls # ret.calls

\* C40: a merge of list L never creates, modifies or deletes an entry of
\* another list, whatever the batch holds and however the merge ends, and
\* every entry it creates has list_name L and source backend.
C40_MergeTouchesOnlyItsList ==
  [][MergeStep =>
       /\ {e \in store' : e.list_name # ret.arg.listName}
            = {e \in store : e.list_name # ret.arg.listName}
       /\ \A e \in store' \ store :
            e.list_name = ret.arg.listName /\ e.source = "backend"]_vars

\* a merge whose candidate names another list and another source has stored
\* its entry while the other list holds an entry
C40_Witness ==
  /\ TheMerge
  /\ ret.calls[1].status = "ok"
  /\ Has(ret.arg.entries[1], "list_name")
  /\ \E e \in store : e.list_name = ret.arg.listName /\ e.source = "backend"
  /\ \E e \in store : e.list_name # ret.arg.listName
\* a parseAndSyncLists call is in flight, or has just finished
TheSync == Has(ret, "calls") /\ ret.op = "parseAndSyncLists"

\* C34: the lists of one configuration are merged one after another in the
\* order of the configuration's keys.  Whenever the merge of a list takes a
\* step, the merges of all lists before it have completed or failed and no
\* merge of a list after it has begun.
C34_ListsMergedInOrder ==
  [][(TheSync /\ Has(ret', "calls")) =>
       \A p \in DOMAIN ret.calls :
         ret'.calls[p] # ret.calls[p] =>
           \A q \in DOMAIN ret.calls :
             /\ q < p => ret.calls[q].pc = "done"
             /\ q > p => ret.calls[q].pc = "start" /\ ret'.calls[q] = ret.calls[q]]_vars

\* the merge of the first list has failed and the merge of the second list
\* has deleted an entry
C34_Witness ==
  /\ TheSync
  /\ Len(ret.calls) = 2
  /\ ret.calls[1].status = "rejected"
  /\ ret.calls[2].pc # "start"
  /\ ret.calls[2].deleted # {}
\* the step is an updateListEntry call that resolves
UpdateResolves ==
  /\ ret = NoCall
  /\ ret'.op = "updateListEntry"
  /\ ret'.status = "ok"

\* the metadata that the updates of the call give
GivenMetadata(updates) == IF Has(updates, "metadata") THEN updates.metadata ELSE EmptyObject

\* the entry of the call keeps every field that `given` does not name, the
\* metadata is merged key by key, and updated_at is the clock
MergedOver(old, new, updates, given) ==
  /\ \A k \in given : new[k] = updates[k]
  /\ \A k \in DOMAIN old \ (DOMAIN updates \cup {"metadata"}) : new[k] = old[k]
  /\ \A k \in DOMAIN GivenMetadata(updates) \ {"updated_at"} :
       k \in DOMAIN new.metadata /\ new.metadata[k] = updates.metadata[k]
  /\ \A k \in DOMAIN old.metadata \ (DOMAIN GivenMetadata(updates) \cup {"updated_at"}) :
       k \in DOMAIN new.metadata /\ new.metadata[k] = old.metadata[k]
  /\ "updated_at" \in DOMAIN new.metadata
  /\ new.metadata.updated_at = clock

\* C35 as stated: after a successful update every top-level field given in
\* updates has its new value, an id given in updates included.
C35_EveryGivenFieldStored ==
  [][UpdateResolves =>
       /\ \E e \in store' : e.id = ret'.arg.id
       /\ MergedOver(EntryWithId(store, ret'.arg.id), EntryWithId(store', ret'.arg.id),
                     ret'.arg.updates, DOMAIN ret'.arg.updates \ {"metadata"})]_vars

\* C35: updateListEntry merges the new fields over the old.  After a
\* successful update every top-level field given in updates other than id has
\* its new value, the id is the id of the call, every field not given keeps
\* its old value, the metadata keys given in updates.metadata are overwritten,
\* the metadata keys not given are kept, updated_at is the current clock, and
\* no other entry changes.
C35_UpdateMergesFields ==
  [][UpdateResolves =>
       /\ \E e \in store' : e.id = ret'.arg.id
       /\ MergedOver(EntryWithId(store, ret'.arg.id), EntryWithId(store', ret'.arg.id),
                     ret'.arg.updates, DOMAIN ret'.arg.updates \ {"metadata", "id"})
       /\ store' \ {EntryWithId(store', ret'.arg.id)}
            = store \ {EntryWithId(store, ret'.arg.id)}]_vars

\* an update that gave a top-level field and a new metadata key has resolved,
\* after the clock has advanced, for an entry that keeps its category
C35_Witness ==
  /\ ret.op = "updateListEntry"
  /\ ret.status = "ok"
  /\ Has(ret.arg.updates, "domain")
  /\ Has(ret.arg.updates, "metadata")
  /\ clock > 1
  /\ \E e \in store :
       /\ e.id = ret.arg.id
       /\ e.domain = ret.arg.updates.domain
       /\ e.metadata.category = "x"
       /\ e.metadata.description = "d"
       /\ e.metadata.updated_at = clock
       /\ e.metadata.created_at < clock
\* the key names of the lists section of a fetched configuration, none when
\* it has no such section
KeyNames(response) ==
  IF Has(response, "lists") THEN {response.lists[i].listName : i \in DOMAIN response.lists}
  ELSE {}

C39_FailedImportNotRolledBack ==
  [][(ret'.op = "importList" /\ HasEntriesArray(ret'.arg.data) /\ ret'.status = "error") =>
       /\ {e \in store' : e.list_name = ret'.arg.listName} = {}
       /\ {e \in store' : e.list_name # ret'.arg.listName}
            = {e \in store : e.list_name # ret'.arg.listName}]_vars

\* an import of an array that names one key twice has failed, and the list,
\* which held entries before, is empty beside another list that is not
C39_Witness ==
  /\ ret.op = "importList"
  /\ ret.status = "error"
  /\ HasEntriesArray(ret.arg.data)
  /\ Len(ret.arg.data.entries) = 2
  /\ ret.arg.data.entries[1] = ret.arg.data.entries[2]
  /\ {e \in store : e.list_name = ret.arg.listName} = {}
  /\ \E e \in store : e.list_name # ret.arg.listName
  /\ nextId > Cardinality(store) + 1

====
